---- MODULE Spec2Model ----
(***************************************************************************)
(* Model of the keypoint-estimation pipeline of the watch image tagging    *)
(* tool: HomographyKeypointsPipeline.predict and the stages it drives      *)
(* (YOLODetector.detect_and_align, LoFTRMatcher.find_correspondences and   *)
(* estimate_homography, the keypoint projector and the OBB estimator).     *)
(*                                                                         *)
(* Numbers.  Python floats are modelled as exact rationals [n, d] in       *)
(* lowest terms with d > 0, extended with the IEEE non-finite values:      *)
(* d = 0 encodes +inf (n = 1), -inf (n = -1) and NaN (n = 0).  Rotation    *)
(* angles are multiples of 90 degrees, for which sine and cosine are       *)
(* taken as the exact values -1, 0, 1.                                     *)
(*                                                                         *)
(* Optional values.  Python's None is the empty tuple and a present value  *)
(* x is the one-element tuple <<x>>.  A formatted text is the tuple of its *)
(* pieces, the empty text "" the empty tuple.                              *)
(***************************************************************************)
EXTENDS Integers, Sequences, FiniteSets, TLC

None == <<>>

Some(x) == <<x>>

(***************************************************************************)
(* Extended rational arithmetic (float semantics without rounding)         *)
(***************************************************************************)
Abs(i) == IF i < 0 THEN -i ELSE i

Sign(i) == IF i > 0 THEN 1 ELSE IF i < 0 THEN -1 ELSE 0

RECURSIVE GCD(_, _)
GCD(a, b) == IF b = 0 THEN a ELSE GCD(b, a % b)

Norm(n, d) ==
    IF d = 0 THEN [n |-> Sign(n), d |-> 0]
    ELSE LET g == GCD(Abs(n), Abs(d))
             s == Sign(d)
         IN  [n |-> (s * n) \div g, d |-> (s * d) \div g]

R(i) == [n |-> i, d |-> 1]

Frac(n, d) == Norm(n, d)

NaN == [n |-> 0, d |-> 0]

PosInf == [n |-> 1, d |-> 0]

NegInf == [n |-> -1, d |-> 0]

IsFinite(a) == a.d # 0

IsNaN(a) == a.d = 0 /\ a.n = 0

RAdd(a, b) ==
    IF a.d = 0 /\ b.d = 0
    THEN (IF a.n = b.n THEN a ELSE NaN)
    ELSE Norm(a.n * b.d + b.n * a.d, a.d * b.d)

RNeg(a) == [n |-> -a.n, d |-> a.d]

RSub(a, b) == RAdd(a, RNeg(b))

RMul(a, b) == Norm(a.n * b.n, a.d * b.d)

\* a / b; a finite non-zero value divided by zero is an infinity and 0/0
\* is NaN, as for numpy float64 scalars (which warn but do not raise).
RDiv(a, b) == Norm(a.n * b.d, a.d * b.n)

\* a < b as Python compares floats: every comparison with NaN is False.
RLt(a, b) ==
    IF IsNaN(a) \/ IsNaN(b) THEN FALSE
    ELSE IF a.d = 0 /\ b.d = 0 THEN a.n < b.n
    ELSE a.n * b.d < b.n * a.d

RLe(a, b) == RLt(a, b) \/ (~IsNaN(a) /\ a = b)

\* Python's builtin min(a, b): b is taken only when b < a.
PyMin(a, b) == IF RLt(b, a) THEN b ELSE a

\* Python's builtin max(a, b): b is taken only when b > a.
PyMax(a, b) == IF RLt(a, b) THEN b ELSE a

\* Python's int(x) of a finite float: truncation towards zero.
Trunc(a) == IF a.n >= 0 THEN a.n \div a.d ELSE -((-a.n) \div a.d)

IntMax(i, j) == IF i > j THEN i ELSE j

IntMin(i, j) == IF i < j THEN i ELSE j

\* np.cos / np.sin of an angle in degrees (multiples of 90 only).
CosDeg(deg) ==
    LET m == deg % 360
    IN  IF m = 0 THEN R(1) ELSE IF m = 180 THEN R(-1) ELSE R(0)

SinDeg(deg) ==
    LET m == deg % 360
    IN  IF m = 90 THEN R(1) ELSE IF m = 270 THEN R(-1) ELSE R(0)

Pt(x, y) == [x |-> x, y |-> y]

(***************************************************************************)
(* Configuration (HomographyKeypointsPipeline.__init__ defaults)           *)
(***************************************************************************)
\* yolo_config.get('padding_factor', 1.5)
padding_factor == Frac(3, 2)

\* config.get('homography', {}).get('min_inliers', 10)
min_inliers == 10

\* default of detect_and_align's template_size parameter, one side
DefaultTemplateSide == 1024

\* MIN_BOX_SIZE_RATIO = 0.10
MIN_BOX_SIZE_RATIO == Frac(1, 10)

\* crop margin factor 1.3 of detect_and_align
CropMargin == Frac(13, 10)

\* minimum number of correspondences for a homography
MinMatches == 4

KeypointNames == {"top", "bottom", "left", "right", "center"}

(***************************************************************************)
(* YOLODetector.detect_and_align                                           *)
(*   image : [w, h] of the original image                                  *)
(*   yolo  : what self.model.predict produced: kind "error" (it raised),   *)
(*           "none" (no oriented box) or "boxes" with the first            *)
(*           (highest-confidence) box cx, cy, w, h, rot, conf and the      *)
(*           number of boxes num                                           *)
(***************************************************************************)
\* cv2.getRotationMatrix2D(center, angle, 1.0) as a 2x3 matrix
getRotationMatrix2D(cx, cy, angle) ==
    LET alpha == CosDeg(angle)
        beta  == SinDeg(angle)
    IN  << << alpha, beta,
              RSub(RMul(RSub(R(1), alpha), cx), RMul(beta, cy)) >>,
           << RNeg(beta), alpha,
              RAdd(RMul(beta, cx), RMul(RSub(R(1), alpha), cy)) >> >>

YoloError(msg) ==
    [phase1 |-> None, num_det |-> 0, conf |-> R(0),
     reason |-> <<"yolo_error: ", msg>>, obb_data |-> None]

PaddedSide(side, pf) == Trunc(RMul(R(side), pf))

ResizeOnlyParams(image, padded_w, padded_h) ==
    [type |-> "resize_only",
     scale_x |-> Frac(padded_w, image.w),
     scale_y |-> Frac(padded_h, image.h),
     phase1_size |-> <<padded_w, padded_h>>]

\* the branch taken when result.obb is empty (lines 119-157)
WholeImageNoDetection(image, padded_w, padded_h) ==
    [phase1 |-> Some([w |-> padded_w, h |-> padded_h]),
     num_det |-> 0, conf |-> R(0), reason |-> <<>>,
     obb_data |-> Some(
        [center_x |-> Frac(image.w, 2), center_y |-> Frac(image.h, 2),
         width |-> R(image.w), height |-> R(image.h),
         rotation_deg |-> 0,
         image_shape |-> <<image.h, image.w>>,
         used_whole_image |-> TRUE,
         box_height_ratio |-> R(1),
         transform_params |-> Some(ResizeOnlyParams(image, padded_w, padded_h))])]

\* variant: a box exactly at the threshold counts as too small
BoxTooSmall_Inclusive(ratio) == RLe(ratio, MIN_BOX_SIZE_RATIO)

\* box_height_ratio < MIN_BOX_SIZE_RATIO (line 190)
BoxTooSmall(ratio) == RLt(ratio, MIN_BOX_SIZE_RATIO)

\* variant: a too-small box handled exactly like no detection at all
WholeImageSmallBox_Sentinel(image, yolo, ratio, padded_w, padded_h) ==
    WholeImageNoDetection(image, padded_w, padded_h)

\* the branch taken when the box is too small (lines 190-217)
WholeImageSmallBox(image, yolo, ratio, padded_w, padded_h) ==
    [phase1 |-> Some([w |-> padded_w, h |-> padded_h]),
     num_det |-> yolo.num, conf |-> yolo.conf, reason |-> <<>>,
     obb_data |-> Some(
        [center_x |-> R(yolo.cx), center_y |-> R(yolo.cy),
         width |-> R(yolo.w), height |-> R(yolo.h),
         rotation_deg |-> yolo.rot,
         image_shape |-> <<image.h, image.w>>,
         used_whole_image |-> TRUE,
         box_height_ratio |-> ratio,
         transform_params |-> Some(ResizeOnlyParams(image, padded_w, padded_h))])]

\* the crop / rotate / resize branch (lines 219-285)
CropRotateResize(image, yolo, ratio, padded_w, padded_h) ==
    LET side   == Trunc(RMul(R(IntMax(yolo.w, yolo.h)), CropMargin))
        crop_w == side
        crop_h == side
        x1 == IntMax(0, yolo.cx - (crop_w \div 2))
        y1 == IntMax(0, yolo.cy - (crop_h \div 2))
        x2 == IntMin(image.w, yolo.cx + (crop_w \div 2))
        y2 == IntMin(image.h, yolo.cy + (crop_h \div 2))
        crop_shape_w == IntMax(0, x2 - x1)
        crop_shape_h == IntMax(0, y2 - y1)
        crop_center_x == R(yolo.cx - x1)
        crop_center_y == R(yolo.cy - y1)
    IN  IF crop_shape_w = 0 \/ crop_shape_h = 0
        THEN YoloError("warpAffine: empty source")
        ELSE
        [phase1 |-> Some([w |-> padded_w, h |-> padded_h]),
         num_det |-> yolo.num, conf |-> yolo.conf, reason |-> <<>>,
         obb_data |-> Some(
            [center_x |-> R(yolo.cx), center_y |-> R(yolo.cy),
             width |-> R(yolo.w), height |-> R(yolo.h),
             rotation_deg |-> yolo.rot,
             image_shape |-> <<image.h, image.w>>,
             used_whole_image |-> FALSE,
             box_height_ratio |-> ratio,
             transform_params |-> Some(
                [type |-> "crop_rotate_resize",
                 crop_box |-> <<x1, y1, x2, y2>>,
                 crop_center |-> <<crop_center_x, crop_center_y>>,
                 rotation_deg |-> yolo.rot,
                 rotation_matrix |->
                     getRotationMatrix2D(crop_center_x, crop_center_y, -yolo.rot),
                 crop_shape |-> <<crop_shape_w, crop_shape_h>>,
                 scale_x |-> Frac(padded_w, crop_shape_w),
                 scale_y |-> Frac(padded_h, crop_shape_h),
                 phase1_size |-> <<padded_w, padded_h>>])])]

detect_and_align(image, pf, template_size, yolo) ==
    LET padded_w == PaddedSide(template_size[2], pf)
        padded_h == PaddedSide(template_size[1], pf)
    IN  IF yolo.kind = "error" THEN YoloError("model.predict failed")
        ELSE IF yolo.kind = "none"
        THEN WholeImageNoDetection(image, padded_w, padded_h)
        ELSE LET ratio == Frac(IntMax(yolo.w, yolo.h), image.h)
             IN  IF BoxTooSmall(ratio)
                 THEN WholeImageSmallBox(image, yolo, ratio, padded_w, padded_h)
                 ELSE CropRotateResize(image, yolo, ratio, padded_w, padded_h)

(***************************************************************************)
(* The forward point map of the crop / rotate / resize chain built by      *)
(* detect_and_align: crop at (x1, y1), cv2.warpAffine with the recorded    *)
(* rotation_matrix (warpAffine without WARP_INVERSE_MAP moves the source   *)
(* point q to M*q), then the resize by scale_x, scale_y.                   *)
(***************************************************************************)
forward_original_to_phase1(q, tp) ==
    IF tp.type = "resize_only"
    THEN Pt(RMul(q.x, tp.scale_x), RMul(q.y, tp.scale_y))
    ELSE LET M  == tp.rotation_matrix
             xc == RSub(q.x, R(tp.crop_box[1]))
             yc == RSub(q.y, R(tp.crop_box[2]))
             xr == RAdd(RAdd(RMul(M[1][1], xc), RMul(M[1][2], yc)), M[1][3])
             yr == RAdd(RAdd(RMul(M[2][1], xc), RMul(M[2][2], yc)), M[2][3])
         IN  Pt(RMul(xr, tp.scale_x), RMul(yr, tp.scale_y))

(***************************************************************************)
(* HomographyKeypointsPipeline._transform_phase1_to_original               *)
(*   otp : Optional transform_params                                       *)
(***************************************************************************)
UnRotate(xc, yc, rotation_deg) ==
    LET cos_a == CosDeg(rotation_deg)
        sin_a == SinDeg(rotation_deg)
    IN  Pt(RSub(RMul(cos_a, xc), RMul(sin_a, yc)),
           RAdd(RMul(sin_a, xc), RMul(cos_a, yc)))

transform_phase1_to_original(p, otp) ==
    IF otp = None THEN p
    ELSE LET tp == otp[1]
         IN  IF tp.type = "resize_only"
             THEN Pt(RDiv(p.x, tp.scale_x), RDiv(p.y, tp.scale_y))
             ELSE IF tp.type = "crop_rotate_resize"
             THEN LET x_rotated  == RDiv(p.x, tp.scale_x)
                      y_rotated  == RDiv(p.y, tp.scale_y)
                      ccx        == tp.crop_center[1]
                      ccy        == tp.crop_center[2]
                      x_centered == RSub(x_rotated, ccx)
                      y_centered == RSub(y_rotated, ccy)
                      rot        == UnRotate(x_centered, y_centered, tp.rotation_deg)
                      x_cropped  == RAdd(rot.x, ccx)
                      y_cropped  == RAdd(rot.y, ccy)
                  IN  Pt(RAdd(x_cropped, R(tp.crop_box[1])),
                         RAdd(y_cropped, R(tp.crop_box[2])))
             ELSE p

(***************************************************************************)
(* Normalisation and clamping shared by the projector and the OBB          *)
(* estimator: max(0.0, min(1.0, v))                                        *)
(***************************************************************************)
\* variant: the upper clamp is forgotten
Clamp01_NoUpperBound(v) == PyMax(R(0), v)


Clamp01(v) == PyMax(R(0), PyMin(R(1), v))

\* KeypointCoords(**d): the five declared fields (pydantic ignores others)
KeypointCoords(d) == [k \in KeypointNames |-> d[k]]

(***************************************************************************)
(* HomographyKeypointsPipeline._estimate_keypoints_from_obb                *)
(***************************************************************************)
\* variant: the box is taken to carry no padding
padding_percent_None == R(0)

\* padding_percent default 0.15
padding_percent == Frac(15, 100)

estimate_keypoints_from_obb(obb) ==
    LET img_h == obb.image_shape[1]
        img_w == obb.image_shape[2]
        pad          == RAdd(R(1), RMul(R(2), padding_percent))
        width_range  == RDiv(obb.width, pad)
        height_range == RDiv(obb.height, pad)
        primary      == Pt(SinDeg(obb.rotation_deg), CosDeg(obb.rotation_deg))
        secondary    == Pt(CosDeg(obb.rotation_deg), RNeg(SinDeg(obb.rotation_deg)))
        half_height  == RDiv(height_range, R(2))
        half_width   == RDiv(width_range, R(2))
        c            == Pt(obb.center_x, obb.center_y)
        Along(sgn, half, axis) ==
            Pt(RAdd(c.x, RMul(R(sgn), RMul(half, axis.x))),
               RAdd(c.y, RMul(R(sgn), RMul(half, axis.y))))
        keypoints_px ==
            [k \in KeypointNames |->
                CASE k = "top"    -> Along(-1, half_height, primary)
                  [] k = "bottom" -> Along(1, half_height, primary)
                  [] k = "left"   -> Along(-1, half_width, secondary)
                  [] k = "right"  -> Along(1, half_width, secondary)
                  [] OTHER        -> c]
    IN  KeypointCoords(
          [k \in KeypointNames |->
              << Clamp01(RDiv(keypoints_px[k].x, R(img_w))),
                 Clamp01(RDiv(keypoints_px[k].y, R(img_h))) >>])

(***************************************************************************)
(* HomographyKeypointsPipeline._project_keypoints                          *)
(*   H is a 3x3 integer matrix.  np.linalg.inv is the adjugate over the    *)
(*   determinant.  For an exactly singular H LAPACK either reports the     *)
(*   zero pivot (LinAlgError) or, after rounding, returns an inverse with  *)
(*   overflowing entries; linalg_error says which of the two happened.     *)
(***************************************************************************)
Det3(H) ==
      H[1][1] * (H[2][2] * H[3][3] - H[2][3] * H[3][2])
    - H[1][2] * (H[2][1] * H[3][3] - H[2][3] * H[3][1])
    + H[1][3] * (H[2][1] * H[3][2] - H[2][2] * H[3][1])

Adj3(H) ==
    << << H[2][2] * H[3][3] - H[2][3] * H[3][2],
          H[1][3] * H[3][2] - H[1][2] * H[3][3],
          H[1][2] * H[2][3] - H[1][3] * H[2][2] >>,
       << H[2][3] * H[3][1] - H[2][1] * H[3][3],
          H[1][1] * H[3][3] - H[1][3] * H[3][1],
          H[1][3] * H[2][1] - H[1][1] * H[2][3] >>,
       << H[2][1] * H[3][2] - H[2][2] * H[3][1],
          H[1][2] * H[3][1] - H[1][1] * H[3][2],
          H[1][1] * H[2][2] - H[1][2] * H[2][1] >> >>

LinalgInv(H) ==
    LET det == Det3(H)
        adj == Adj3(H)
    IN  [i \in 1..3 |-> [j \in 1..3 |-> Frac(adj[i][j], det)]]

MatVec(M, v) ==
    [i \in 1..3 |->
        RAdd(RAdd(RMul(M[i][1], v[1]), RMul(M[i][2], v[2])), RMul(M[i][3], v[3]))]

\* variant: top and bottom interchanged
SingularDefaultKeypoints_Flipped ==
    [k \in KeypointNames |->
        CASE k = "top"    -> << Frac(1, 2), Frac(4, 5) >>
          [] k = "bottom" -> << Frac(1, 2), Frac(1, 5) >>
          [] k = "left"   -> << Frac(1, 5), Frac(1, 2) >>
          [] k = "right"  -> << Frac(4, 5), Frac(1, 2) >>
          [] OTHER        -> << Frac(1, 2), Frac(1, 2) >>]

\* the hardcoded keypoints returned when np.linalg.inv raises LinAlgError
SingularDefaultKeypoints ==
    [k \in KeypointNames |->
        CASE k = "top"    -> << Frac(1, 2), Frac(1, 5) >>
          [] k = "bottom" -> << Frac(1, 2), Frac(4, 5) >>
          [] k = "left"   -> << Frac(1, 5), Frac(1, 2) >>
          [] k = "right"  -> << Frac(4, 5), Frac(1, 2) >>
          [] OTHER        -> << Frac(1, 2), Frac(1, 2) >>]

ProjectOne(H_inv, kp, template_size, original_shape, otp) ==
    LET x_t_px == RMul(kp[1], R(template_size[1]))
        y_t_px == RMul(kp[2], R(template_size[2]))
        ph     == MatVec(H_inv, << x_t_px, y_t_px, R(1) >>)
        p1     == Pt(RDiv(ph[1], ph[3]), RDiv(ph[2], ph[3]))
        orig   == transform_phase1_to_original(p1, otp)
    IN  << Clamp01(RDiv(orig.x, R(original_shape[2]))),
           Clamp01(RDiv(orig.y, R(original_shape[1]))) >>

project_keypoints(H, linalg_error, template, original_shape, otp) ==
    IF linalg_error THEN KeypointCoords(SingularDefaultKeypoints)
    ELSE LET H_inv == LinalgInv(H)
         IN  KeypointCoords(
               [k \in DOMAIN template.keypoints_norm |->
                   ProjectOne(H_inv, template.keypoints_norm[k],
                              template.image_size, original_shape, otp)])

(***************************************************************************)
(* LoFTRMatcher.estimate_homography                                        *)
(*   cv : what cv2.findHomography returned: kind "none" (H is None) or     *)
(*        "found" with the matrix H and the number of inliers of the mask  *)
(***************************************************************************)
InlierRatio(num_inliers, num_matches) ==
    IF num_matches > 0 THEN Frac(num_inliers, num_matches) ELSE R(0)

\* variant: the inlier count is not compared with min_inliers
estimate_homography_NoInlierCheck(num_matches, cv, min_inl) ==
    IF num_matches < MinMatches \/ cv.kind = "none"
    THEN [H |-> None, num_inliers |-> 0, confidence |-> R(0)]
    ELSE [H |-> Some(cv.H), num_inliers |-> cv.inliers,
          confidence |-> InlierRatio(cv.inliers, num_matches)]

\* lines 130-176
estimate_homography(num_matches, cv, min_inl) ==
    IF num_matches < MinMatches
    THEN [H |-> None, num_inliers |-> 0, confidence |-> R(0)]
    ELSE IF cv.kind = "none"
    THEN [H |-> None, num_inliers |-> 0, confidence |-> R(0)]
    ELSE IF cv.inliers < min_inl
    THEN [H |-> None, num_inliers |-> cv.inliers,
          confidence |-> InlierRatio(cv.inliers, num_matches)]
    ELSE [H |-> Some(cv.H), num_inliers |-> cv.inliers,
          confidence |-> InlierRatio(cv.inliers, num_matches)]

(***************************************************************************)
(* Bounds and input domains                                                *)
(***************************************************************************)
\* largest number of correspondences the matcher returns
MaxMatches == 12

\* sizes (w, h) of readable input images
ImageSizes ==
    { [w |-> 64, h |-> 48], [w |-> 100, h |-> 80], [w |-> 1200, h |-> 1000] }

\* what cv2.imread does with the file
Files ==
    { [kind |-> "unreadable", w |-> 0, h |-> 0],
      [kind |-> "raises", w |-> 0, h |-> 0] }
    \cup { [kind |-> "image", w |-> sz.w, h |-> sz.h] : sz \in ImageSizes }

\* templates the TemplateLoader can have loaded (image_size is (w, h))
Templates ==
    { [model_name |-> "nab",
       image_size |-> <<1024, 1024>>,
       keypoints_norm |->
          [k \in KeypointNames |->
              CASE k = "top"    -> << Frac(1, 2), Frac(1, 10) >>
                [] k = "bottom" -> << Frac(1, 2), Frac(9, 10) >>
                [] k = "left"   -> << Frac(1, 10), Frac(1, 2) >>
                [] k = "right"  -> << Frac(9, 10), Frac(1, 2) >>
                [] OTHER        -> << Frac(1, 2), Frac(1, 2) >>]],
      [model_name |-> "wide",
       image_size |-> <<800, 600>>,
       keypoints_norm |->
          [k \in KeypointNames \cup {"crown"} |->
              CASE k = "top"    -> << Frac(1, 2), Frac(1, 4) >>
                [] k = "bottom" -> << Frac(1, 2), Frac(3, 4) >>
                [] k = "left"   -> << Frac(1, 4), Frac(1, 2) >>
                [] k = "right"  -> << Frac(3, 4), Frac(1, 2) >>
                [] k = "crown"  -> << R(1), Frac(1, 2) >>
                [] OTHER        -> << Frac(1, 2), Frac(1, 2) >>]] }

Rotations == {0, 90, 180, -90}

\* (width, height) of the first oriented box, relative to the image: a box
\* below a tenth of the image height, one at the threshold, one just
\* below and one just above it (99 and 101 thousandths of the height), a
\* medium box and a box as large as the image
BoxSizes(image) ==
    { << image.h \div 12, image.h \div 16 >>,
      << image.h \div 16, image.h \div 10 >>,
      << (99 * image.h) \div 1000, image.h \div 16 >>,
      << image.h \div 16, (101 * image.h + 999) \div 1000 >>,
      << image.h \div 2, image.h \div 3 >>,
      << image.w, image.h >> }

BoxCenters(image) ==
    { << image.w \div 2, image.h \div 2 >>,
      << image.w \div 8, (7 * image.h) \div 8 >> }

\* (number of boxes, confidence of the first box)
Detections == { << 1, Frac(9, 10) >>, << 3, Frac(1, 2) >> }

YoloOutcomes(image) ==
    { [kind |-> "error", num |-> 0, conf |-> R(0),
       cx |-> 0, cy |-> 0, w |-> 0, h |-> 0, rot |-> 0],
      [kind |-> "none", num |-> 0, conf |-> R(0),
       cx |-> 0, cy |-> 0, w |-> 0, h |-> 0, rot |-> 0] }
    \cup { [kind |-> "boxes", num |-> d[1], conf |-> d[2],
            cx |-> c[1], cy |-> c[2], w |-> b[1], h |-> b[2], rot |-> r] :
            d \in Detections, c \in BoxCenters(image),
            b \in BoxSizes(image), r \in Rotations }

\* homographies cv2.findHomography can return (Phase-1 -> template): a pure
\* scale, a scale with translation, a quarter turn, a projective map whose
\* inverse sends the template's vertical centre line to infinity, and a
\* singular (rank 2) matrix as degenerate correspondences produce
Homographies ==
    { << <<2, 0, 0>>, <<0, 2, 0>>, <<0, 0, 3>> >>,
      << <<2, 0, -300>>, <<0, 2, 150>>, <<0, 0, 3>> >>,
      << <<0, -2, 3072>>, <<2, 0, 0>>, <<0, 0, 3>> >>,
      << <<-512, 0, 0>>, <<0, -512, 0>>, <<-1, 0, 1>> >>,
      << <<1, 2, 3>>, <<2, 4, 6>>, <<0, 0, 1>> >> }

FindHomographyOutcomes(n) ==
    { [kind |-> "error", H |-> <<>>, inliers |-> 0],
      [kind |-> "none", H |-> <<>>, inliers |-> 0] }
    \cup { [kind |-> "found", H |-> h, inliers |-> k] :
            h \in Homographies, k \in MinMatches..n }

(***************************************************************************)
(* State of one pipeline instance and of the predict() call in progress    *)
(***************************************************************************)
VARIABLES
    template_data,  \* self.template_data, loaded at construction
    pc,             \* position of predict(): "ready", "detect", "match",
                    \* "homography", "project", "returned", "raised"
    img,            \* Optional [w, h]: dimensions of query_img
    det,            \* Optional return value of detect_and_align
    mkpts,          \* Optional len(mkpts0) returned by find_correspondences
    hom,            \* Optional return value of estimate_homography
    result,         \* Optional PipelineResult returned by predict()
    nresults,       \* number of PipelineResults this call has returned
    yolo_out,       \* Optional outcome of self.model.predict in the detector
    inv_error,      \* np.linalg.inv raised LinAlgError in this call
    exc,            \* Optional text of the exception raised in this call
    raised,         \* Optional text of the exception that left predict()
    calls,          \* stages invoked by this call, in order
    est_in,         \* Optional arguments of the last estimate_homography
                    \* call: num_matches, cv2.findHomography's outcome,
                    \* min_inliers
    \* scripts/batch_predict.py: one BatchProcessor and its files
    force,          \* self.force
    resume,         \* self.resume
    b_pc,           \* position of BatchProcessor.run()
    progress,       \* self.progress.data
    todo,           \* images_to_process: sequence of [file, image_id, watch_id]
    idx,            \* idx of the processing loop (1-based), 0 before it
    saver,          \* self.saver.predictions, as a set of
                    \* [watch_id, image_id, annotation]
    interrupted,    \* self.interrupted
    runner_in,      \* Optional [file, outcome]: what cv2.imread and the
                    \* pipeline do in the runner.predict call in progress
    runner_out,     \* Optional return (or exception) of the last
                    \* runner.predict call
    log,            \* loop iterations completed so far: sequence of
                    \* [image_id, annotator, raised]
    loaded,         \* self.progress.data at the start of the loop
    disk_progress,  \* the progress file: [kind, data]
    disk_preds,     \* the output directory's JSON files, as a set of
                    \* [watch_id, image_id, annotation]
    disk_labels,    \* image ids in the labels directory's JSON files
    runs,           \* how many times the script has been started
    predicted,      \* history: image ids whose runner.predict call
                    \* returned, over all runs, in order
    \* prediction_server/main.py
    cache_enabled,  \* cache.enabled (config.cache.enabled)
    cache_files,    \* the cache directory: set of << key, file >>
    s_pc,           \* "down", "waiting", "task" (in the loop of predict),
                    \* "responded" (response built, not yet sent)
    request,        \* Optional request being handled: [endpoint, tasks]
    task_idx,       \* index of the task the loop of predict is at
    predictions,    \* the list predictions of predict()
    response,       \* Optional response of the last request
    paths,          \* history: how each task of the request was answered
    stored          \* history: for each cache.set that wrote a file, the
                    \* key, the pipeline result and the returned prediction

batch_vars == << force, resume, b_pc, progress, todo, idx, saver,
                 interrupted, runner_in, runner_out, log, loaded,
                 disk_progress, disk_preds, disk_labels, runs,
                 predicted >>

pipeline_vars == << template_data, pc, img, det, mkpts, hom, result, nresults,
                    yolo_out, inv_error, exc, raised, calls, est_in >>

server_vars == << cache_enabled, cache_files, s_pc, request, task_idx,
                  predictions, response, paths, stored >>

vars == << pipeline_vars, batch_vars, server_vars >>

(***************************************************************************)
(* PipelineResult values built by predict()                                *)
(***************************************************************************)
PipelineResult(success, keypoints, confidence, w, h, debug_info, error_message) ==
    [success |-> success, keypoints |-> keypoints, roi |-> None,
     confidence |-> confidence, image_width |-> w, image_height |-> h,
     debug_info |-> debug_info, error_message |-> error_message]

\* the arguments of one estimate_homography call
EstimateArgs(num_matches, cv, min_inl) ==
    [num_matches |-> num_matches, cv |-> cv, min_inliers |-> min_inl]

\* lines 201-210
ImageLoadFailed ==
    PipelineResult(FALSE, None, R(0), None, None,
        [reason |-> "image_load_failed"],
        Some(<<"Image load failed: ", "path">>))

\* lines 224-233
YoloFailed(image, reason) ==
    PipelineResult(FALSE, None, R(0), Some(image.w), Some(image.h),
        [phase |-> "yolo", reason |-> reason],
        Some(<<"YOLO detection failed: ", reason>>))

\* lines 248-261
NoObbAfterMatches(image, n) ==
    PipelineResult(FALSE, None, R(0), Some(image.w), Some(image.h),
        [phase |-> "loftr", reason |-> "insufficient_matches_no_obb_fallback",
         num_matches |-> n],
        Some(<<"Insufficient LoFTR matches and no OBB data for fallback">>))

\* variant: the debug_info of the full pipeline pasted into the fallback
FallbackAfterMatches_FullMethod(image, d, n, keypoints, tmpl) ==
    PipelineResult(TRUE, Some(keypoints), d.conf, Some(image.w), Some(image.h),
        [yolo_detections |-> d.num_det,
         yolo_confidence |-> d.conf,
         loftr_matches |-> n,
         method |-> "YOLO-LoFTR-Homography",
         template_model |-> tmpl.model_name],
        None)

\* lines 266-284
FallbackAfterMatches(image, d, n, keypoints, tmpl) ==
    PipelineResult(TRUE, Some(keypoints), d.conf, Some(image.w), Some(image.h),
        [yolo_detections |-> d.num_det,
         yolo_confidence |-> d.conf,
         yolo_used_whole_image |-> d.obb_data[1].used_whole_image,
         yolo_box_height_ratio |-> d.obb_data[1].box_height_ratio,
         loftr_matches |-> n,
         method |-> "YOLO-OBB-Fallback (insufficient LoFTR matches)",
         template_model |-> tmpl.model_name,
         fallback_reason |-> << "insufficient_loftr_matches", n, MinMatches >>],
        None)

\* lines 300-314
NoObbAfterHomography(image, n, num_inliers) ==
    PipelineResult(FALSE, None, R(0), Some(image.w), Some(image.h),
        [phase |-> "homography", reason |-> "homography_failed_no_obb_fallback",
         num_matches |-> n, inliers |-> num_inliers],
        Some(<<"Homography failed and no OBB data for fallback">>))

\* variant: the insufficient-matches result reused for a rejected homography
FallbackAfterHomography_AsMatches(image, d, n, h, keypoints, tmpl) ==
    FallbackAfterMatches(image, d, n, keypoints, tmpl)

\* lines 319-338
FallbackAfterHomography(image, d, n, h, keypoints, tmpl) ==
    PipelineResult(TRUE, Some(keypoints), d.conf, Some(image.w), Some(image.h),
        [yolo_detections |-> d.num_det,
         yolo_confidence |-> d.conf,
         yolo_used_whole_image |-> d.obb_data[1].used_whole_image,
         yolo_box_height_ratio |-> d.obb_data[1].box_height_ratio,
         loftr_matches |-> n,
         homography_inliers |-> h.num_inliers,
         method |-> "YOLO-OBB-Fallback (homography failed)",
         template_model |-> tmpl.model_name,
         fallback_reason |-> << "insufficient_inliers", h.num_inliers, min_inliers >>],
        None)

\* variant: the detector's confidence reported for the full pipeline
FullPipeline_YoloConfidence(image, d, n, h, keypoints, tmpl) ==
    PipelineResult(TRUE, Some(keypoints), d.conf, Some(image.w), Some(image.h),
        [yolo_detections |-> d.num_det,
         yolo_confidence |-> d.conf,
         loftr_matches |-> n,
         homography_inliers |-> h.num_inliers,
         method |-> "YOLO-LoFTR-Homography",
         template_model |-> tmpl.model_name],
        None)

\* lines 351-369
FullPipeline(image, d, n, h, keypoints, tmpl) ==
    PipelineResult(TRUE, Some(keypoints), h.confidence, Some(image.w), Some(image.h),
        [yolo_detections |-> d.num_det,
         yolo_confidence |-> d.conf,
         yolo_used_whole_image |-> d.obb_data[1].used_whole_image,
         yolo_box_height_ratio |-> d.obb_data[1].box_height_ratio,
         loftr_matches |-> n,
         homography_inliers |-> h.num_inliers,
         method |-> "YOLO-LoFTR-Homography",
         template_model |-> tmpl.model_name],
        None)

\* lines 371-382
PipelineError(image, e) ==
    PipelineResult(FALSE, None, R(0), Some(image.w), Some(image.h),
        [reason |-> "pipeline_error", error |-> e],
        Some(<<"Pipeline error: ", e>>))

\* variant: the detector's failure is not checked
DetectionFailed_Unchecked(d) == FALSE

\* phase1_img is None (line 222)
DetectionFailed(d) == d.phase1 = None

\* variant: off by one, three correspondences go on to the estimator
InsufficientMatches_OffByOne(n) == n < MinMatches - 1

\* len(mkpts0) < 4 (line 240)
InsufficientMatches(n) == n < MinMatches

\* H is None (line 291)
HomographyRejected(h) == h.H = None

(***************************************************************************)
(* scripts/batch_predict.py: ProgressManager                               *)
(*   a dict is kept as a set of <<key, value>> pairs; last_updated and     *)
(*   the other time stamps are left out                                    *)
(***************************************************************************)
DictSet(d, k, v) == { e \in d : e[1] # k } \cup { << k, v >> }

DictGet(d, k, default) ==
    IF \E e \in d : e[1] = k THEN (CHOOSE e \in d : e[1] = k)[2] ELSE default

DictKeys(d) == { e[1] : e \in d }

InSeq(x, s) == \E i \in 1..Len(s) : s[i] = x

\* default_data of _init_progress_data
DefaultProgress ==
    [version |-> "1.0",
     processed_images |-> <<>>,
     failed_images |-> {},
     stats |-> [total_images |-> 0, processed |-> 0, successful |-> 0,
                pipeline_fallback |-> 0, geometric_fallback |-> 0,
                skipped_existing |-> 0, errors |-> {}]]

\* _init_progress_data: the file's content when the file exists and can
\* be parsed, default_data otherwise
init_progress_data(file) ==
    IF file.kind = "data" THEN file.data ELSE DefaultProgress

is_processed(data, image_id) == InSeq(image_id, data.processed_images)

\* the three values of the annotator string
FullAnnotator == "ml-model-v1.0"

PipelineFallbackAnnotator == "ml-model-v1.0-pipeline-fallback"

GeometricFallbackAnnotator == "ml-model-v1.0-geometric-fallback"

\* "pipeline-fallback" in annotator, on the three annotator strings
ContainsPipelineFallback(annotator) == annotator = PipelineFallbackAnnotator

\* "geometric-fallback" in annotator, on the three annotator strings
ContainsGeometricFallback(annotator) == annotator = GeometricFallbackAnnotator

\* mark_processed(image_id, success, error, annotator); error is Optional
mark_processed(data, image_id, success, error, annotator) ==
    LET error_key == IF error = None THEN "unknown_error" ELSE error[1]
        st == [data.stats EXCEPT !.processed = @ + 1]
    IN  [data EXCEPT
          !.processed_images =
              IF InSeq(image_id, @) THEN @ ELSE Append(@, image_id),
          !.failed_images =
              IF success THEN @ ELSE DictSet(@, image_id, error_key),
          !.stats =
              IF success
              THEN [st EXCEPT
                     !.successful = @ + 1,
                     !.pipeline_fallback =
                         IF ContainsPipelineFallback(annotator)
                         THEN @ + 1 ELSE @,
                     !.geometric_fallback =
                         IF /\ ~ContainsPipelineFallback(annotator)
                            /\ ContainsGeometricFallback(annotator)
                         THEN @ + 1 ELSE @]
              ELSE [st EXCEPT
                     !.errors =
                         DictSet(@, error_key, DictGet(@, error_key, 0) + 1)]]

set_total_images(data, total) == [data EXCEPT !.stats.total_images = total]

(***************************************************************************)
(* scripts/batch_predict.py: PredictionRunner                              *)
(*   file    : what cv2.imread does with the image file (as in Files)      *)
(*   outcome : what self.pipeline.predict does: [raised, result]           *)
(***************************************************************************)
\* round(x, 3) of a finite x: to the nearest thousandth, ties to even
Round3(x) ==
    LET q   == (x.n * 1000) \div x.d
        rem == (x.n * 1000) % x.d
        up  == \/ 2 * rem > x.d
               \/ (2 * rem = x.d /\ q % 2 = 1)
    IN  Frac(IF up THEN q + 1 ELSE q, 1000)

\* _extract_keypoints
extract_keypoints(r, img_w, img_h, filename) ==
    [image_size |-> << img_w, img_h >>,
     coords_norm |-> [k \in KeypointNames |-> r.keypoints[1][k]],
     full_image_name |-> filename,
     confidence |-> Round3(r.confidence),
     debug_info |-> r.debug_info]

\* _generate_geometric_fallback
generate_geometric_fallback(image_size, filename) ==
    [image_size |-> image_size,
     coords_norm |->
        [k \in KeypointNames |->
            CASE k = "center" -> << Frac(5, 10), Frac(5, 10) >>
              [] k = "top"    -> << Frac(5, 10), Frac(1, 10) >>
              [] k = "bottom" -> << Frac(5, 10), Frac(9, 10) >>
              [] k = "left"   -> << Frac(1, 10), Frac(5, 10) >>
              [] OTHER        -> << Frac(9, 10), Frac(5, 10) >>],
     full_image_name |-> filename,
     confidence |-> R(0),
     debug_info |-> [method |-> "geometric_fallback"]]

\* "pipeline_fallback" in method.lower() or "obb" in method.lower(),
\* evaluated on each method string a PipelineResult can carry ("" when
\* debug_info has no method)
NamesFallback(method) ==
    CASE method = "YOLO-OBB-Fallback (insufficient LoFTR matches)" -> TRUE
      [] method = "YOLO-OBB-Fallback (homography failed)" -> TRUE
      [] method = "YOLO-LoFTR-Homography" -> FALSE
      [] OTHER -> FALSE

RunnerReturn(annotation, annotator) ==
    [raised |-> None, annotation |-> Some(annotation), annotator |-> annotator]

RunnerRaise(e) ==
    [raised |-> Some(e), annotation |-> None, annotator |-> ""]

\* the annotator chosen for a successful PipelineResult (lines 359-364)
AnnotatorOf(r) ==
    LET method == IF "method" \in DOMAIN r.debug_info
                  THEN r.debug_info.method ELSE ""
    IN  IF NamesFallback(method)
        THEN PipelineFallbackAnnotator ELSE FullAnnotator

\* PredictionRunner.predict, once the pipeline is initialized
runner_predict(file, outcome, filename) ==
    IF file.kind = "raises" THEN RunnerRaise("imread failed")
    ELSE IF file.kind = "unreadable"
    THEN RunnerReturn(generate_geometric_fallback(<< 2048, 2048 >>, filename),
                      GeometricFallbackAnnotator)
    ELSE IF outcome.raised
    THEN RunnerReturn(generate_geometric_fallback(<< file.w, file.h >>, filename),
                      GeometricFallbackAnnotator)
    ELSE LET r == outcome.result[1]
         IN  IF r.success /\ r.keypoints # None
             THEN RunnerReturn(extract_keypoints(r, file.w, file.h, filename),
                               AnnotatorOf(r))
             ELSE RunnerReturn(
                      generate_geometric_fallback(<< file.w, file.h >>, filename),
                      GeometricFallbackAnnotator)

(***************************************************************************)
(* scripts/batch_predict.py: PredictionSaver and ImageScanner              *)
(*   predictions, in memory and in the output directory's <watch>.json     *)
(*   files, are sets of [watch_id, image_id, annotation]                   *)
(***************************************************************************)
\* annotation["annotator"] = annotator
WithAnnotator(annotation, annotator) ==
    [image_size |-> annotation.image_size,
     coords_norm |-> annotation.coords_norm,
     full_image_name |-> annotation.full_image_name,
     confidence |-> annotation.confidence,
     debug_info |-> annotation.debug_info,
     annotator |-> annotator]

\* add_prediction: self.predictions[watch_id][image_id] = annotation
add_prediction(preds, watch_id, image_id, annotation, annotator) ==
    { e \in preds : ~(e.watch_id = watch_id /\ e.image_id = image_id) }
    \cup { [watch_id |-> watch_id, image_id |-> image_id,
            annotation |-> WithAnnotator(annotation, annotator)] }

\* save_all / _save_watch_file: every watch's file is rewritten as the
\* existing annotations overridden by the new ones; failing is the set of
\* watches whose file cannot be written
save_all(preds, disk, failing) ==
    LET written == { e \in preds : e.watch_id \notin failing }
    IN  { e \in disk :
            ~\E n \in written :
                n.watch_id = e.watch_id /\ n.image_id = e.image_id }
        \cup written

\* _load_existing_image_ids: the keys of every JSON file of the labels
\* directory and of the output directory
load_existing_image_ids(labels, disk) ==
    labels \cup { e.image_id : e \in disk }

RECURSIVE Filter(_, _)
\* [x for x in s if x.image_id not in skip]
Filter(s, skip) ==
    IF s = <<>> THEN <<>>
    ELSE IF Head(s).image_id \in skip
    THEN Filter(Tail(s), skip)
    ELSE << Head(s) >> \o Filter(Tail(s), skip)

\* scan_images(skip_existing) over the sorted image files, with no
\* watch_id filter
scan_images(files, skip_existing, labels, disk) ==
    Filter(files,
           IF skip_existing THEN load_existing_image_ids(labels, disk) ELSE {})

(***************************************************************************)
(* Inputs of the batch driver                                              *)
(***************************************************************************)
\* --checkpoint-freq
CheckpointFreq == 2

\* the face images of the images directory, in scan order, with the
\* image id get_image_id gives each of them
ImageFiles ==
    << [file |-> "A_01_face_q3.jpg", image_id |-> "A_01_face", watch_id |-> "A"],
       [file |-> "A_02_face_q3.jpg", image_id |-> "A_02_face", watch_id |-> "A"],
       [file |-> "B_01_face_q2.jpg", image_id |-> "B_01_face", watch_id |-> "B"] >>

\* what cv2.imread does with one of them
BatchFiles == { f \in Files : f.kind # "image" \/ f.w = 100 }

\* the template the default configuration loads (model 'nab')
NabTemplate == CHOOSE t \in Templates : t.model_name = "nab"

\* what self.pipeline.predict can do with a readable image: raise, or
\* return one of the results predict() builds (a projection, the default
\* of a singular homography, the two OBB fallbacks, two failures)
PipelineOutcomes(tmpl) ==
    LET image == CHOOSE f \in BatchFiles : f.kind = "image"
        d == detect_and_align(image, padding_factor,
                 << DefaultTemplateSide, DefaultTemplateSide >>,
                 [kind |-> "boxes", num |-> 1, conf |-> Frac(9, 10),
                  cx |-> image.w \div 2, cy |-> image.h \div 2,
                  w |-> image.h \div 2, h |-> image.h \div 3, rot |-> 0])
        obb == d.obb_data[1]
        shape == << image.h, image.w >>
        H1 == << <<2, 0, 0>>, <<0, 2, 0>>, <<0, 0, 3>> >>
        H0 == << <<1, 2, 3>>, <<2, 4, 6>>, <<0, 0, 1>> >>
        n  == MaxMatches
        found(H, k) == [kind |-> "found", H |-> H, inliers |-> k]
        good == estimate_homography(n, found(H1, n - 1), min_inliers)
        sing == estimate_homography(n, found(H0, n - 1), min_inliers)
        weak == estimate_homography(n, found(H1, min_inliers - 1), min_inliers)
        results ==
          { FullPipeline(image, d, n, good,
                project_keypoints(H1, FALSE, tmpl, shape, obb.transform_params),
                tmpl),
            FullPipeline(image, d, n, sing,
                project_keypoints(H0, TRUE, tmpl, shape, obb.transform_params),
                tmpl),
            FallbackAfterMatches(image, d, MinMatches - 1,
                estimate_keypoints_from_obb(obb), tmpl),
            FallbackAfterHomography(image, d, n, weak,
                estimate_keypoints_from_obb(obb), tmpl),
            YoloFailed(image, << "yolo_error: ", "model.predict failed" >>),
            ImageLoadFailed }
    IN  { [raised |-> TRUE, result |-> None] }
        \cup { [raised |-> FALSE, result |-> Some(r)] : r \in results }

\* the pipeline is only reached with an image cv2.imread could read
PipelineNotCalled == [raised |-> FALSE, result |-> None]

PipelineOutcomesFor(file, tmpl) ==
    IF file.kind = "image" THEN PipelineOutcomes(tmpl) ELSE { PipelineNotCalled }

\* the progress file an earlier run left behind: one image processed,
\* its prediction a geometric fallback
EarlierProgress ==
    mark_processed(set_total_images(DefaultProgress, Len(ImageFiles)),
        ImageFiles[1].image_id, FALSE, None, GeometricFallbackAnnotator)

\* the progress file: absent, unparsable, or holding EarlierProgress
ProgressFiles ==
    { [kind |-> "absent", data |-> DefaultProgress],
      [kind |-> "corrupt", data |-> DefaultProgress],
      [kind |-> "data", data |-> EarlierProgress] }

\* the prediction that earlier run saved
EarlierPredictions ==
    add_prediction({}, ImageFiles[1].watch_id, ImageFiles[1].image_id,
        generate_geometric_fallback(<< 2048, 2048 >>, ImageFiles[1].file),
        GeometricFallbackAnnotator)

(***************************************************************************)
(* predict(): "return r" and the stages, one action per stage call         *)
(***************************************************************************)
Return(r) ==
    /\ result' = Some(r)
    /\ nresults' = nresults + 1
    /\ pc' = "returned"

\* a server that has not been started
ServerDown ==
    /\ cache_enabled = TRUE
    /\ cache_files = {}
    /\ s_pc = "down"
    /\ request = None
    /\ task_idx = 0
    /\ predictions = <<>>
    /\ response = None
    /\ paths = <<>>
    /\ stored = {}

\* a BatchProcessor that is not running
BatchIdle ==
    /\ force = FALSE
    /\ resume = TRUE
    /\ b_pc = "idle"
    /\ progress = DefaultProgress
    /\ todo = <<>>
    /\ idx = 0
    /\ saver = {}
    /\ interrupted = FALSE
    /\ runner_in = None
    /\ runner_out = None
    /\ log = <<>>
    /\ loaded = DefaultProgress
    /\ disk_progress = [kind |-> "absent", data |-> DefaultProgress]
    /\ disk_preds = {}
    /\ disk_labels = {}
    /\ runs = 0
    /\ predicted = <<>>

Init ==
    /\ BatchIdle
    /\ ServerDown
    /\ template_data \in Templates
    /\ pc = "ready"
    /\ img = None
    /\ det = None
    /\ mkpts = None
    /\ hom = None
    /\ result = None
    /\ nresults = 0
    /\ yolo_out = None
    /\ inv_error = FALSE
    /\ exc = None
    /\ raised = None
    /\ calls = <<>>
    /\ est_in = None

\* lines 197-214: a new call; cv2.imread and query_img.shape run before
\* the try block
LoadImage ==
    /\ pc \in {"ready", "returned", "raised"}
    /\ \E file \in Files :
        /\ calls' = << "load" >>
        /\ det' = None
        /\ mkpts' = None
        /\ hom' = None
        /\ yolo_out' = None
        /\ inv_error' = FALSE
        /\ est_in' = None
        /\ IF file.kind = "raises"
           THEN /\ exc' = Some("imread failed")
                /\ raised' = Some("imread failed")
                /\ img' = None
                /\ result' = None
                /\ nresults' = 0
                /\ pc' = "raised"
           ELSE IF file.kind = "unreadable"
           THEN /\ exc' = None
                /\ raised' = None
                /\ img' = None
                /\ result' = Some(ImageLoadFailed)
                /\ nresults' = 1
                /\ pc' = "returned"
           ELSE /\ exc' = None
                /\ raised' = None
                /\ img' = Some([w |-> file.w, h |-> file.h])
                /\ result' = None
                /\ nresults' = 0
                /\ pc' = "detect"
    /\ UNCHANGED template_data
    /\ UNCHANGED batch_vars
    /\ UNCHANGED server_vars

\* lines 216-233; detect_and_align is called with the image and the
\* padding factor only, so template_size keeps its default
Detect ==
    /\ pc = "detect"
    /\ \E yolo \in YoloOutcomes(img[1]) :
        LET d == detect_and_align(img[1], padding_factor,
                     << DefaultTemplateSide, DefaultTemplateSide >>, yolo)
        IN  /\ det' = Some(d)
            /\ yolo_out' = Some(yolo)
            /\ calls' = Append(calls, "detect")
            /\ IF DetectionFailed(d)
               THEN Return(YoloFailed(img[1], d.reason))
               ELSE /\ pc' = "match"
                    /\ UNCHANGED << result, nresults >>
    /\ UNCHANGED << template_data, img, mkpts, hom, inv_error, exc, raised,
                    est_in >>
    /\ UNCHANGED batch_vars
    /\ UNCHANGED server_vars

\* lines 235-284 (and 371-382 when find_correspondences raises)
Match ==
    /\ pc = "match"
    /\ \/ /\ calls' = Append(calls, "match")
          /\ exc' = Some("loftr failed")
          /\ Return(PipelineError(img[1], "loftr failed"))
          /\ UNCHANGED mkpts
       \/ \E n \in 0..MaxMatches :
          /\ mkpts' = Some(n)
          /\ UNCHANGED exc
          /\ IF InsufficientMatches(n)
             THEN IF det[1].obb_data = None
                  THEN /\ calls' = Append(calls, "match")
                       /\ Return(NoObbAfterMatches(img[1], n))
                  ELSE /\ calls' = calls \o << "match", "obb_fallback" >>
                       /\ Return(FallbackAfterMatches(img[1], det[1], n,
                              estimate_keypoints_from_obb(det[1].obb_data[1]),
                              template_data))
             ELSE /\ calls' = Append(calls, "match")
                  /\ pc' = "homography"
                  /\ UNCHANGED << result, nresults >>
    /\ UNCHANGED << template_data, img, det, hom, yolo_out, inv_error, raised,
                    est_in >>
    /\ UNCHANGED batch_vars
    /\ UNCHANGED server_vars

\* lines 286-338 (and 371-382 when cv2.findHomography raises)
Homography ==
    /\ pc = "homography"
    /\ \E cv \in FindHomographyOutcomes(mkpts[1]) :
        /\ est_in' = Some(EstimateArgs(mkpts[1], cv, min_inliers))
        /\ IF cv.kind = "error"
           THEN /\ calls' = Append(calls, "homography")
                /\ exc' = Some("findHomography failed")
                /\ Return(PipelineError(img[1], "findHomography failed"))
                /\ UNCHANGED hom
           ELSE LET h == estimate_homography(mkpts[1], cv, min_inliers)
                IN  /\ hom' = Some(h)
                    /\ UNCHANGED exc
                    /\ IF HomographyRejected(h)
                       THEN IF det[1].obb_data = None
                            THEN /\ calls' = Append(calls, "homography")
                                 /\ Return(NoObbAfterHomography(img[1], mkpts[1],
                                                                h.num_inliers))
                            ELSE /\ calls' = calls \o << "homography", "obb_fallback" >>
                                 /\ Return(FallbackAfterHomography(img[1], det[1],
                                        mkpts[1], h,
                                        estimate_keypoints_from_obb(det[1].obb_data[1]),
                                        template_data))
                       ELSE /\ calls' = Append(calls, "homography")
                            /\ pc' = "project"
                            /\ UNCHANGED << result, nresults >>
    /\ UNCHANGED << template_data, img, det, mkpts, yolo_out, inv_error, raised >>
    /\ UNCHANGED batch_vars
    /\ UNCHANGED server_vars

\* lines 340-369 (and 371-382: obb_data.get on None raises AttributeError)
Project ==
    /\ pc = "project"
    /\ IF det[1].obb_data = None
       THEN /\ calls' = calls
            /\ exc' = Some("NoneType has no attribute get")
            /\ Return(PipelineError(img[1], "NoneType has no attribute get"))
            /\ UNCHANGED inv_error
       ELSE \E linalg_error \in
               (IF Det3(hom[1].H[1]) = 0 THEN BOOLEAN ELSE {FALSE}) :
            /\ calls' = Append(calls, "project")
            /\ inv_error' = linalg_error
            /\ UNCHANGED exc
            /\ Return(FullPipeline(img[1], det[1], mkpts[1], hom[1],
                   project_keypoints(hom[1].H[1], linalg_error, template_data,
                       << img[1].h, img[1].w >>,
                       det[1].obb_data[1].transform_params),
                   template_data))
    /\ UNCHANGED << template_data, img, det, mkpts, hom, yolo_out, raised,
                    est_in >>
    /\ UNCHANGED batch_vars
    /\ UNCHANGED server_vars

Next == LoadImage \/ Detect \/ Match \/ Homography \/ Project

Spec == Init /\ [][Next]_vars

TypeOK ==
    /\ pc \in {"ready", "detect", "match", "homography", "project",
               "returned", "raised"}
    /\ nresults \in 0..1
    /\ Len(calls) <= 5

(***************************************************************************)
(* Properties                                                              *)
(***************************************************************************)
Finished == pc \in {"returned", "raised"}

Called(stage) == \E i \in 1..Len(calls) : calls[i] = stage

CallCount(stage) == Cardinality({ i \in 1..Len(calls) : calls[i] = stage })

InUnit(v) == RLe(R(0), v) /\ RLe(v, R(1))

MethodOf(r) ==
    IF "method" \in DOMAIN r.debug_info THEN Some(r.debug_info.method) ELSE None

FullMethod == "YOLO-LoFTR-Homography"

ObbMethods ==
    { "YOLO-OBB-Fallback (insufficient LoFTR matches)",
      "YOLO-OBB-Fallback (homography failed)" }

\* C1: predict() never lets an exception escape: whatever stage raises
\* (image load included), the call ends by returning a PipelineResult with
\* success = false whose error_message carries the exception text.
C1_NeverPropagates ==
    /\ pc # "raised"
    /\ raised = None
    /\ (exc # None /\ Finished) =>
          /\ result # None
          /\ result[1].success = FALSE
          /\ result[1].error_message # None
          /\ result[1].error_message[1][Len(result[1].error_message[1])] = exc[1]

\* C2: a finished predict() call has produced exactly one PipelineResult,
\* and in every result success = false iff keypoints is None iff
\* error_message is not None, and success = false implies confidence 0.0.
C2_OneWellFormedResult ==
    /\ Finished => (nresults = 1 /\ result # None)
    /\ ~Finished => nresults = 0
    /\ result # None =>
          /\ (result[1].success = FALSE) <=> (result[1].keypoints = None)
          /\ (result[1].success = FALSE) <=> (result[1].error_message # None)
          /\ (result[1].success = FALSE) => result[1].confidence = R(0)

\* C3: every successful result, whichever path produced it, carries exactly
\* the five keypoints top, bottom, left, right, center, each coordinate
\* being a number in [0, 1].
C3_KeypointsInUnitSquare ==
    (result # None /\ result[1].success) =>
        /\ result[1].keypoints # None
        /\ DOMAIN result[1].keypoints[1] = KeypointNames
        /\ \A k \in KeypointNames :
              /\ InUnit(result[1].keypoints[1][k][1])
              /\ InUnit(result[1].keypoints[1][k][2])

\* a projected result whose keypoints are neither all on the border nor
\* the hardcoded default
C3_Witness ==
    /\ result # None
    /\ result[1].success
    /\ Called("project")
    /\ ~inv_error
    /\ \E k \in KeypointNames :
          /\ RLt(R(0), result[1].keypoints[1][k][1])
          /\ RLt(result[1].keypoints[1][k][1], R(1))
          /\ result[1].keypoints[1][k][1] # Frac(1, 2)

\* reachability of the other three success paths of C3
C3_PathSingular == result # None /\ result[1].success /\ inv_error

C3_PathObbMatches ==
    result # None /\ result[1].success /\ Called("obb_fallback") /\ hom = None

C3_PathObbHomography ==
    result # None /\ result[1].success /\ Called("obb_fallback") /\ hom # None

\* a coordinate that was not a number before clamping
C3_PathNaN ==
    /\ result # None /\ result[1].success /\ Called("project") /\ ~inv_error
    /\ Det3(hom[1].H[1]) = 0

\* C4: a success of the full pipeline reports the homography stage's
\* confidence num_inliers / num_matches; a success through the OBB fallback
\* reports the detector's confidence.
C4_ConfidenceSemantics ==
    (result # None /\ result[1].success) =>
        /\ MethodOf(result[1]) = Some(FullMethod) =>
              /\ hom # None
              /\ mkpts # None
              /\ result[1].confidence = hom[1].confidence
              /\ result[1].confidence = Frac(hom[1].num_inliers, mkpts[1])
        /\ (\E m \in ObbMethods : MethodOf(result[1]) = Some(m)) =>
              /\ Called("obb_fallback")
              /\ result[1].confidence = det[1].conf

\* a full-pipeline success whose confidence differs from the detector's
C4_Witness ==
    /\ result # None
    /\ result[1].success
    /\ MethodOf(result[1]) = Some(FullMethod)
    /\ result[1].confidence # det[1].conf
    /\ RLt(result[1].confidence, R(1))

C4_WitnessFallback ==
    /\ result # None
    /\ result[1].success
    /\ Called("obb_fallback")
    /\ RLt(R(0), result[1].confidence)

\* C5: with fewer than 4 correspondences the call never runs the
\* homography estimator or the projector, and its result names an OBB
\* fallback method, never the full-pipeline method.
C5_FallbackMonotonicity ==
    (mkpts # None /\ mkpts[1] < 4) =>
        /\ ~Called("homography")
        /\ ~Called("project")
        /\ hom = None
        /\ result # None
        /\ MethodOf(result[1]) # None
        /\ MethodOf(result[1])[1] \in ObbMethods
        /\ MethodOf(result[1])[1] # FullMethod

C5_Witness ==
    /\ mkpts = Some(3)
    /\ result # None
    /\ result[1].success
    /\ Called("obb_fallback")

StageRank(stage) ==
    CASE stage = "load" -> 1
      [] stage = "detect" -> 2
      [] stage = "match" -> 3
      [] stage = "homography" -> 4
      [] stage = "project" -> 5
      [] OTHER -> 6

\* C6: the stages of one call run in the order load, detect, match,
\* homography, project, each at most once; the matcher runs only after the
\* detector returned a Phase-1 image, the estimator only after at least 4
\* correspondences, the projector only after a non-None H, and the OBB
\* estimator only after the matcher or the homography estimator failed.
C6_StageOrder ==
    /\ \A i \in 1..Len(calls) : \A j \in 1..Len(calls) :
          i < j => StageRank(calls[i]) < StageRank(calls[j])
    /\ Called("detect") => Called("load") /\ img # None
    /\ Called("match") =>
          Called("detect") /\ det # None /\ det[1].phase1 # None
    /\ Called("homography") =>
          Called("match") /\ mkpts # None /\ mkpts[1] >= 4
    /\ Called("project") =>
          Called("homography") /\ hom # None /\ hom[1].H # None
    /\ Called("obb_fallback") =>
          \/ mkpts # None /\ mkpts[1] < 4 /\ ~Called("homography")
          \/ Called("homography") /\ hom # None /\ hom[1].H = None

C6_Witness ==
    /\ calls = << "load", "detect", "match", "homography", "project" >>
    /\ pc = "returned"

\* original-image points of the crop and Phase-1 points used for C7
CropPoints(tp) ==
    { Pt(R(x), R(y)) :
        x \in { tp.crop_box[1], (tp.crop_box[1] + tp.crop_box[3]) \div 2,
                tp.crop_box[3] },
        y \in { tp.crop_box[2], (tp.crop_box[2] + tp.crop_box[4]) \div 2,
                tp.crop_box[4] } }

Phase1Points(tp) ==
    { Pt(R(x), R(y)) :
        x \in { 0, tp.phase1_size[1] \div 3, tp.phase1_size[1] },
        y \in { 0, tp.phase1_size[2] \div 2, tp.phase1_size[2] } }

HasCropRotateResize ==
    /\ det # None
    /\ det[1].obb_data # None
    /\ det[1].obb_data[1].transform_params[1].type = "crop_rotate_resize"

\* C7: for every crop_rotate_resize transform recorded by the detector,
\* _transform_phase1_to_original inverts the detector's forward point map:
\* forward(inverse(p)) = p for Phase-1 points p and inverse(forward(q)) = q
\* for original-image points q of the crop.
C7_RoundTrip ==
    HasCropRotateResize =>
        LET otp == det[1].obb_data[1].transform_params
            tp  == otp[1]
        IN  /\ \A p \in Phase1Points(tp) :
                  forward_original_to_phase1(
                      transform_phase1_to_original(p, otp), tp) = p
            /\ \A q \in CropPoints(tp) :
                  transform_phase1_to_original(
                      forward_original_to_phase1(q, tp), otp) = q

\* C8: an exception inside detect_and_align comes back as
\* (None, 0, 0.0, "yolo_error: ...", None) and predict() returns a failure
\* without running the matcher, the homography estimator or the OBB
\* estimator; a detector run without detections returns a Phase-1 image
\* with the whole-image box and predict() goes on to the matcher.
C8_DetectorFailureIsFatal ==
    yolo_out # None =>
        /\ yolo_out[1].kind = "error" =>
              /\ det[1].phase1 = None
              /\ det[1].num_det = 0
              /\ det[1].conf = R(0)
              /\ det[1].reason # <<>>
              /\ det[1].reason[1] = "yolo_error: "
              /\ det[1].obb_data = None
              /\ pc = "returned"
              /\ result # None
              /\ result[1].success = FALSE
              /\ calls = << "load", "detect" >>
        /\ yolo_out[1].kind = "none" =>
              /\ det[1].phase1 # None
              /\ det[1].reason = <<>>
              /\ det[1].obb_data # None
              /\ det[1].obb_data[1].used_whole_image
              /\ det[1].obb_data[1].width = R(img[1].w)
              /\ det[1].obb_data[1].height = R(img[1].h)
              /\ det[1].obb_data[1].center_x = Frac(img[1].w, 2)
              /\ det[1].obb_data[1].center_y = Frac(img[1].h, 2)
              /\ det[1].obb_data[1].rotation_deg = 0
              /\ (pc = "match" \/ Called("match"))

C8_Witness ==
    /\ yolo_out # None
    /\ yolo_out[1].kind = "error"
    /\ pc = "returned"

C8_WitnessNoDetection ==
    /\ yolo_out # None
    /\ yolo_out[1].kind = "none"
    /\ Called("match")

\* C9: when estimate_homography returns H = None and OBB data exists,
\* predict() succeeds with the keypoints the OBB estimator computes from
\* that OBB data, never runs the projector, and records a method and a
\* fallback_reason that name the homography stage and differ from those of
\* the insufficient-matches fallback.
C9_HomographyRejectedFallback ==
    (hom # None /\ hom[1].H = None /\ det[1].obb_data # None) =>
        /\ pc = "returned"
        /\ result # None
        /\ result[1].success
        /\ Called("obb_fallback")
        /\ ~Called("project")
        /\ result[1].keypoints =
              Some(estimate_keypoints_from_obb(det[1].obb_data[1]))
        /\ MethodOf(result[1]) = Some("YOLO-OBB-Fallback (homography failed)")
        /\ "fallback_reason" \in DOMAIN result[1].debug_info
        /\ result[1].debug_info.fallback_reason[1] = "insufficient_inliers"
        /\ result[1].debug_info.fallback_reason[1] # "insufficient_loftr_matches"
        /\ MethodOf(result[1]) #
              Some("YOLO-OBB-Fallback (insufficient LoFTR matches)")

\* a homography found by the robust estimator but below min_inliers
C9_Witness ==
    /\ hom # None
    /\ hom[1].H = None
    /\ hom[1].num_inliers > 0
    /\ result # None
    /\ result[1].success

C9_WitnessNoSolution ==
    /\ hom # None
    /\ hom[1].H = None
    /\ hom[1].num_inliers = 0
    /\ result # None
    /\ result[1].success

\* C10: when a homography that passed the inlier check cannot be inverted
\* (LinAlgError), the projector returns top (0.5, 0.2), bottom (0.5, 0.8),
\* left (0.2, 0.5), right (0.8, 0.5), center (0.5, 0.5), the OBB estimator
\* is not run, and predict() succeeds with the homography's confidence.
C10_SingularDefault ==
    inv_error =>
        /\ hom # None
        /\ hom[1].H # None
        /\ hom[1].num_inliers >= 10
        /\ result # None
        /\ result[1].success
        /\ ~Called("obb_fallback")
        /\ result[1].confidence = hom[1].confidence
        /\ result[1].keypoints # None
        /\ result[1].keypoints[1]["top"] = << Frac(5, 10), Frac(2, 10) >>
        /\ result[1].keypoints[1]["bottom"] = << Frac(5, 10), Frac(8, 10) >>
        /\ result[1].keypoints[1]["left"] = << Frac(2, 10), Frac(5, 10) >>
        /\ result[1].keypoints[1]["right"] = << Frac(8, 10), Frac(5, 10) >>
        /\ result[1].keypoints[1]["center"] = << Frac(5, 10), Frac(5, 10) >>

C10_Witness ==
    /\ inv_error
    /\ pc = "returned"
    /\ Det3(hom[1].H[1]) = 0
    /\ result[1].confidence # det[1].conf

\* C11: every fallback decision of predict() is recorded in debug_info: a
\* successful result whose keypoints do not come from projecting the
\* template through the inverse homography (OBB fallback after too few
\* matches or after a rejected homography, hardcoded default after a
\* singular homography) differs in its method or carries a fallback_reason,
\* so it cannot be taken for a result of the full pipeline.
C11_FallbackRecorded ==
    (result # None /\ result[1].success
        /\ (Called("obb_fallback") \/ inv_error)) =>
        \/ MethodOf(result[1]) # Some(FullMethod)
        \/ "fallback_reason" \in DOMAIN result[1].debug_info

\* max(obb_width, obb_height) / img_h of the first box the model returned
BoxHeightRatio == Frac(IntMax(yolo_out[1].w, yolo_out[1].h), img[1].h)

DetectedBoxes == yolo_out # None /\ yolo_out[1].kind = "boxes"

\* C12: for the highest-confidence box, detect_and_align takes the
\* whole-image path (resize_only, used_whole_image = true) whenever
\* max(width, height) / image_height is below 0.10, and the crop/rotate
\* path (crop_rotate_resize, used_whole_image = false) whenever the ratio
\* is above 0.10; a ratio of exactly 0.10 takes the crop/rotate path.
C12_WholeImageThreshold ==
    DetectedBoxes =>
        /\ det[1].obb_data # None
        /\ det[1].obb_data[1].box_height_ratio = BoxHeightRatio
        /\ RLt(BoxHeightRatio, Frac(10, 100)) =>
              /\ det[1].obb_data[1].used_whole_image
              /\ det[1].obb_data[1].transform_params[1].type = "resize_only"
        /\ RLt(Frac(10, 100), BoxHeightRatio) =>
              /\ ~det[1].obb_data[1].used_whole_image
              /\ det[1].obb_data[1].transform_params[1].type
                    = "crop_rotate_resize"
        /\ BoxHeightRatio = Frac(10, 100) =>
              /\ ~det[1].obb_data[1].used_whole_image
              /\ det[1].obb_data[1].transform_params[1].type
                    = "crop_rotate_resize"

\* a box exactly at a tenth of the image height, cropped
C12_Witness ==
    /\ DetectedBoxes
    /\ BoxHeightRatio = Frac(10, 100)
    /\ det[1].obb_data[1].transform_params[1].type = "crop_rotate_resize"

\* the two ratios next to the threshold, 0.099 and 0.101
C12_WitnessBelow ==
    /\ DetectedBoxes
    /\ BoxHeightRatio = Frac(99, 1000)
    /\ det[1].obb_data[1].used_whole_image

C12_WitnessAbove ==
    /\ DetectedBoxes
    /\ BoxHeightRatio = Frac(101, 1000)
    /\ ~det[1].obb_data[1].used_whole_image

\* what detect_and_align returns for the same image when the model finds
\* no oriented box
ZeroDetectionResult ==
    detect_and_align(img[1], padding_factor,
        << DefaultTemplateSide, DefaultTemplateSide >>,
        [kind |-> "none", num |-> 0, conf |-> R(0),
         cx |-> 0, cy |-> 0, w |-> 0, h |-> 0, rot |-> 0])

SmallBoxPath == DetectedBoxes /\ RLt(BoxHeightRatio, MIN_BOX_SIZE_RATIO)

\* C13: on the too-small-box path detect_and_align produces the same
\* Phase-1 image and resize_only transform as on the zero-detection path,
\* but returns the detection's real confidence and detection count and an
\* obb_data holding the detected center, width, height and rotation; on
\* the zero-detection path it returns confidence 0.0, 0 detections and the
\* sentinel box (image center, full image size, rotation 0).  The OBB
\* fallback estimator later uses whichever box obb_data holds.
C13_SmallBoxKeepsDetection ==
    /\ SmallBoxPath =>
          /\ det[1].phase1 = ZeroDetectionResult.phase1
          /\ det[1].obb_data[1].transform_params =
                ZeroDetectionResult.obb_data[1].transform_params
          /\ det[1].obb_data[1].transform_params[1].type = "resize_only"
          /\ det[1].conf = yolo_out[1].conf
          /\ det[1].num_det = yolo_out[1].num
          /\ det[1].obb_data[1].center_x = R(yolo_out[1].cx)
          /\ det[1].obb_data[1].center_y = R(yolo_out[1].cy)
          /\ det[1].obb_data[1].width = R(yolo_out[1].w)
          /\ det[1].obb_data[1].height = R(yolo_out[1].h)
          /\ det[1].obb_data[1].rotation_deg = yolo_out[1].rot
    /\ (yolo_out # None /\ yolo_out[1].kind = "none") =>
          /\ det[1].conf = R(0)
          /\ det[1].num_det = 0
          /\ det[1].obb_data[1].center_x = Frac(img[1].w, 2)
          /\ det[1].obb_data[1].center_y = Frac(img[1].h, 2)
          /\ det[1].obb_data[1].width = R(img[1].w)
          /\ det[1].obb_data[1].height = R(img[1].h)
          /\ det[1].obb_data[1].rotation_deg = 0
    /\ (Called("obb_fallback") /\ result # None) =>
          /\ result[1].keypoints =
                Some(estimate_keypoints_from_obb(det[1].obb_data[1]))
          /\ SmallBoxPath =>
                result[1].keypoints[1]["center"] =
                    << Frac(yolo_out[1].cx, img[1].w),
                       Frac(yolo_out[1].cy, img[1].h) >>
          /\ yolo_out[1].kind = "none" =>
                result[1].keypoints[1]["center"] = << Frac(1, 2), Frac(1, 2) >>

\* a too-small box away from the image center whose data the OBB
\* estimator has used
C13_Witness ==
    /\ SmallBoxPath
    /\ Called("obb_fallback")
    /\ result # None
    /\ RLt(R(0), det[1].conf)
    /\ det[1].num_det = 3
    /\ result[1].keypoints[1]["center"] # << Frac(1, 2), Frac(1, 2) >>

C13_WitnessZero ==
    /\ yolo_out # None
    /\ yolo_out[1].kind = "none"
    /\ Called("obb_fallback")
    /\ result # None

(***************************************************************************)
(* LoFTRMatcher.estimate_homography on its own: any number of              *)
(* correspondences, any outcome of cv2.findHomography that returns, and    *)
(* the min_inliers values a configuration may give                         *)
(***************************************************************************)
MinInliersChoices == { MinMatches, min_inliers }

EstimateHomographyCall ==
    /\ \E n \in 0..MaxMatches, min_inl \in MinInliersChoices :
       \E cv \in { o \in FindHomographyOutcomes(n) : o.kind # "error" } :
          /\ est_in' = Some(EstimateArgs(n, cv, min_inl))
          /\ hom' = Some(estimate_homography(n, cv, min_inl))
    /\ UNCHANGED << template_data, pc, img, det, mkpts, result, nresults,
                    yolo_out, inv_error, exc, raised, calls >>
    /\ UNCHANGED batch_vars
    /\ UNCHANGED server_vars

EstimatorNext == EstimateHomographyCall

EstimatorSpec == Init /\ [][EstimatorNext]_vars

\* C14: estimate_homography returns a non-None H iff there are at least 4
\* correspondences, the robust estimator found a solution and
\* num_inliers >= min_inliers; with fewer than 4 correspondences or no
\* solution it returns (None, 0, 0.0); with a solution of fewer than
\* min_inliers inliers it returns (None, num_inliers,
\* num_inliers / num_matches); whenever H is returned, confidence is
\* num_inliers / num_matches and lies in [0, 1].
C14_EstimateHomographyContract ==
    (est_in # None /\ hom # None) =>
        LET a == est_in[1]
            h == hom[1]
            solved == a.num_matches >= 4 /\ a.cv.kind = "found"
        IN  /\ (h.H # None) <=> (solved /\ a.cv.inliers >= a.min_inliers)
            /\ ~solved =>
                  /\ h.H = None
                  /\ h.num_inliers = 0
                  /\ h.confidence = R(0)
            /\ (solved /\ a.cv.inliers < a.min_inliers) =>
                  /\ h.H = None
                  /\ h.num_inliers = a.cv.inliers
                  /\ h.confidence = Frac(a.cv.inliers, a.num_matches)
            /\ h.H # None =>
                  /\ h.H = Some(a.cv.H)
                  /\ h.num_inliers = a.cv.inliers
                  /\ h.confidence = Frac(h.num_inliers, a.num_matches)
                  /\ InUnit(h.confidence)

\* a solution discarded for having fewer than min_inliers inliers
C14_Witness ==
    /\ est_in # None
    /\ est_in[1].cv.kind = "found"
    /\ est_in[1].cv.inliers = 9
    /\ est_in[1].min_inliers = 10
    /\ hom = Some([H |-> None, num_inliers |-> 9,
                   confidence |-> Frac(9, 12)])

C14_WitnessReturned ==
    /\ est_in # None
    /\ hom # None
    /\ hom[1].H # None
    /\ RLt(hom[1].confidence, R(1))

C14_WitnessTooFew ==
    /\ est_in # None
    /\ est_in[1].num_matches = 3
    /\ hom = Some([H |-> None, num_inliers |-> 0, confidence |-> R(0)])

\* c + sgn * half * axis, divided by the image size and clamped to [0, 1]
ObbPoint(obb, sgn, half, axis) ==
    << Clamp01(RDiv(RAdd(obb.center_x, RMul(R(sgn), RMul(half, axis[1]))),
                    R(obb.image_shape[2]))),
       Clamp01(RDiv(RAdd(obb.center_y, RMul(R(sgn), RMul(half, axis[2]))),
                    R(obb.image_shape[1]))) >>

\* C15: the OBB fallback estimator places the keypoints symmetrically about
\* the box center c along the rotated axes with the padding removed: with
\* w' = width / (1 + 2 * 0.15), h' = height / (1 + 2 * 0.15), primary axis
\* (sin t, cos t) and secondary axis (cos t, -sin t) it returns
\* top = c - (h'/2) primary, bottom = c + (h'/2) primary,
\* left = c - (w'/2) secondary, right = c + (w'/2) secondary, center = c,
\* each divided by the image width / height and clamped to [0, 1]; for
\* rotation 0 top is directly above and left directly to the left of the
\* center.
C15_ObbEstimatorFormula ==
    (Called("obb_fallback") /\ result # None) =>
        LET obb  == det[1].obb_data[1]
            kp   == result[1].keypoints[1]
            t    == obb.rotation_deg
            wu   == RDiv(obb.width, Frac(130, 100))
            hu   == RDiv(obb.height, Frac(130, 100))
            prim == << SinDeg(t), CosDeg(t) >>
            sec  == << CosDeg(t), RNeg(SinDeg(t)) >>
        IN  /\ kp["top"] = ObbPoint(obb, -1, RDiv(hu, R(2)), prim)
            /\ kp["bottom"] = ObbPoint(obb, 1, RDiv(hu, R(2)), prim)
            /\ kp["left"] = ObbPoint(obb, -1, RDiv(wu, R(2)), sec)
            /\ kp["right"] = ObbPoint(obb, 1, RDiv(wu, R(2)), sec)
            /\ kp["center"] = ObbPoint(obb, 1, R(0), prim)
            /\ t = 0 =>
                  /\ kp["top"][1] = kp["center"][1]
                  /\ RLe(kp["top"][2], kp["center"][2])
                  /\ kp["left"][2] = kp["center"][2]
                  /\ RLe(kp["left"][1], kp["center"][1])
                  /\ kp["bottom"][1] = kp["center"][1]
                  /\ RLe(kp["center"][2], kp["bottom"][2])

\* an upright 40 x 26 box at the centre of the 100 x 80 image: top is 10
\* pixels above the center, left 200/13 pixels to its left
C15_Witness ==
    /\ Called("obb_fallback")
    /\ result # None
    /\ img = Some([w |-> 100, h |-> 80])
    /\ det[1].obb_data[1].rotation_deg = 0
    /\ result[1].keypoints[1]["center"] = << Frac(1, 2), Frac(1, 2) >>
    /\ result[1].keypoints[1]["top"] = << Frac(1, 2), Frac(3, 8) >>
    /\ result[1].keypoints[1]["left"] = << Frac(9, 26), Frac(1, 2) >>

\* a quarter turn: top lies to the left of the center, at the same height
C15_WitnessQuarterTurn ==
    /\ Called("obb_fallback")
    /\ result # None
    /\ det[1].obb_data[1].rotation_deg = 90
    /\ RLt(result[1].keypoints[1]["top"][1], result[1].keypoints[1]["center"][1])
    /\ result[1].keypoints[1]["top"][2] = result[1].keypoints[1]["center"][2]

\* (width, height) of the image the detector resized into the Phase-1
\* image: the original for resize_only, the clipped crop otherwise
ResizedSize(image, tp) ==
    IF tp.type = "resize_only" THEN << image.w, image.h >> ELSE tp.crop_shape

\* the scale factors recorded with a transform are the Phase-1 size over
\* the size of the image that was resized
ScalesMatchResize(d, image) ==
    LET tp == d.obb_data[1].transform_params[1]
    IN  /\ tp.phase1_size = << d.phase1[1].w, d.phase1[1].h >>
        /\ tp.scale_x = Frac(d.phase1[1].w, ResizedSize(image, tp)[1])
        /\ tp.scale_y = Frac(d.phase1[1].h, ResizedSize(image, tp)[2])

\* C16: in every non-error result of the detector as predict() invokes it,
\* the Phase-1 image has width int(template_width * padding_factor) and
\* height int(template_height * padding_factor) for the template the
\* pipeline loaded, and the recorded scale_x, scale_y equal the Phase-1
\* size divided by the size of the image that was resized (the original
\* image for resize_only, the clipped crop for crop_rotate_resize).
C16_Phase1SizeAndScale ==
    (det # None /\ det[1].phase1 # None) =>
        /\ det[1].phase1[1].w =
              Trunc(RMul(R(template_data.image_size[1]), padding_factor))
        /\ det[1].phase1[1].h =
              Trunc(RMul(R(template_data.image_size[2]), padding_factor))
        /\ ScalesMatchResize(det[1], img[1])

(***************************************************************************)
(* scripts/batch_predict.py: BatchProcessor                                *)
(*   b_pc: "start" (constructed, run() not yet past the scan), "loop"      *)
(*   (top of the processing loop), "predicting" (inside runner.predict),   *)
(*   "predicted", "added", "except" (inside the loop body), "checkpoint",  *)
(*   "checkpoint_saver", "final_progress", "done" (run() returned) and     *)
(*   "exited" (sys.exit in the SIGINT handler)                             *)
(***************************************************************************)
\* BatchProcessor.__init__ (lines 543-561) with the files it finds
BatchInit ==
    /\ ServerDown
    /\ template_data = NabTemplate
    /\ pc = "ready"
    /\ img = None
    /\ det = None
    /\ mkpts = None
    /\ hom = None
    /\ result = None
    /\ nresults = 0
    /\ yolo_out = None
    /\ inv_error = FALSE
    /\ exc = None
    /\ raised = None
    /\ calls = <<>>
    /\ est_in = None
    /\ force \in BOOLEAN
    /\ resume \in BOOLEAN
    /\ disk_progress \in ProgressFiles
    /\ disk_preds \in { {}, EarlierPredictions }
    /\ disk_labels \in { {}, { ImageFiles[Len(ImageFiles)].image_id } }
    /\ progress = init_progress_data(disk_progress)
    /\ loaded = init_progress_data(disk_progress)
    /\ b_pc = "start"
    /\ todo = <<>>
    /\ idx = 0
    /\ saver = {}
    /\ interrupted = FALSE
    /\ runner_in = None
    /\ runner_out = None
    /\ log = <<>>
    /\ runs = 1
    /\ predicted = <<>>

\* ProgressManager.save: the file is rewritten, or left as it was when
\* writing fails (the exception is logged, not raised)
progress_save(data, file, ok) ==
    IF ok THEN [kind |-> "data", data |-> data] ELSE file

Watches == { ImageFiles[i].watch_id : i \in 1..Len(ImageFiles) }

\* the watches whose file cannot be written in one save_all: none or all
SaveFailures == { {}, Watches }

\* lines 574-610 of run(): scan, resume filter or force reset,
\* set_total_images, runner.initialize()
Scan ==
    /\ b_pc = "start"
    /\ LET scanned == scan_images(ImageFiles, ~force, disk_labels, disk_preds)
           remaining ==
               IF resume /\ ~force
               THEN Filter(scanned,
                        { progress.processed_images[i] :
                            i \in 1..Len(progress.processed_images) })
               ELSE scanned
           cleared ==
               IF (~(resume /\ ~force)) /\ force
               THEN init_progress_data(disk_progress)
               ELSE progress
           counted == set_total_images(cleared, Len(remaining))
       IN  IF scanned = <<>>
           THEN /\ b_pc' = "done"
                /\ UNCHANGED << progress, todo, idx, loaded >>
           ELSE /\ progress' = counted
                /\ loaded' = counted
                /\ todo' = remaining
                /\ IF remaining = <<>>
                   THEN b_pc' = "done" /\ idx' = 0
                   ELSE \E initialized \in BOOLEAN :
                           IF initialized
                           THEN b_pc' = "loop" /\ idx' = 1
                           ELSE b_pc' = "done" /\ idx' = 0
    /\ UNCHANGED << force, resume, saver, interrupted, runner_in, runner_out,
                    log, disk_progress, disk_preds, disk_labels >>
    /\ UNCHANGED << runs, predicted >>
    /\ UNCHANGED pipeline_vars
    /\ UNCHANGED server_vars

\* line 625: runner.predict(image_path) is entered
StartPredict ==
    /\ b_pc = "loop"
    /\ idx <= Len(todo)
    /\ ~interrupted
    /\ \E file \in BatchFiles :
       \E outcome \in PipelineOutcomesFor(file, template_data) :
          runner_in' = Some([file |-> file, outcome |-> outcome])
    /\ runner_out' = None
    /\ b_pc' = "predicting"
    /\ UNCHANGED << force, resume, progress, todo, idx, saver, interrupted,
                    log, loaded, disk_progress, disk_preds, disk_labels >>
    /\ UNCHANGED << runs, predicted >>
    /\ UNCHANGED pipeline_vars
    /\ UNCHANGED server_vars

\* line 625: runner.predict returns or raises
RunnerReturns ==
    /\ b_pc = "predicting"
    /\ LET out == runner_predict(runner_in[1].file, runner_in[1].outcome,
                      todo[idx].file)
       IN  /\ runner_out' = Some(out)
           /\ b_pc' = IF out.raised = None THEN "predicted" ELSE "except"
           /\ predicted' = IF out.raised = None
                              THEN Append(predicted, todo[idx].image_id)
                              ELSE predicted
    /\ UNCHANGED << force, resume, progress, todo, idx, saver, interrupted,
                    runner_in, log, loaded, disk_progress, disk_preds,
                    disk_labels, runs >>
    /\ UNCHANGED pipeline_vars
    /\ UNCHANGED server_vars

\* line 628
AddPrediction ==
    /\ b_pc = "predicted"
    /\ saver' = add_prediction(saver, todo[idx].watch_id, todo[idx].image_id,
                    runner_out[1].annotation[1], runner_out[1].annotator)
    /\ b_pc' = "added"
    /\ UNCHANGED << force, resume, progress, todo, idx, interrupted,
                    runner_in, runner_out, log, loaded, disk_progress,
                    disk_preds, disk_labels >>
    /\ UNCHANGED << runs, predicted >>
    /\ UNCHANGED pipeline_vars
    /\ UNCHANGED server_vars

\* lines 631-632
MarkProcessed ==
    /\ b_pc = "added"
    /\ LET annotator == runner_out[1].annotator
           success == annotator = "ml-model-v1.0"
       IN  /\ progress' = mark_processed(progress, todo[idx].image_id,
                              success, None, annotator)
           /\ log' = Append(log, [image_id |-> todo[idx].image_id,
                                  annotator |-> annotator, raised |-> FALSE])
    /\ b_pc' = "checkpoint"
    /\ UNCHANGED << force, resume, todo, idx, saver, interrupted, runner_in,
                    runner_out, loaded, disk_progress, disk_preds,
                    disk_labels >>
    /\ UNCHANGED << runs, predicted >>
    /\ UNCHANGED pipeline_vars
    /\ UNCHANGED server_vars

\* lines 638-640: mark_processed(image_id, False, str(e))
MarkFailed ==
    /\ b_pc = "except"
    /\ progress' = mark_processed(progress, todo[idx].image_id, FALSE,
                       runner_out[1].raised, FullAnnotator)
    /\ log' = Append(log, [image_id |-> todo[idx].image_id,
                           annotator |-> "", raised |-> TRUE])
    /\ b_pc' = "checkpoint"
    /\ UNCHANGED << force, resume, todo, idx, saver, interrupted, runner_in,
                    runner_out, loaded, disk_progress, disk_preds,
                    disk_labels >>
    /\ UNCHANGED << runs, predicted >>
    /\ UNCHANGED pipeline_vars
    /\ UNCHANGED server_vars

\* lines 643-644: on every checkpoint_freq-th image progress.save()
CheckpointProgress ==
    /\ b_pc = "checkpoint"
    /\ IF idx % CheckpointFreq = 0
       THEN /\ \E ok \in BOOLEAN :
                  disk_progress' = progress_save(progress, disk_progress, ok)
            /\ b_pc' = "checkpoint_saver"
            /\ UNCHANGED idx
       ELSE /\ b_pc' = "loop"
            /\ idx' = idx + 1
            /\ UNCHANGED disk_progress
    /\ UNCHANGED << force, resume, progress, todo, saver, interrupted,
                    runner_in, runner_out, log, loaded, disk_preds,
                    disk_labels >>
    /\ UNCHANGED << runs, predicted >>
    /\ UNCHANGED pipeline_vars
    /\ UNCHANGED server_vars

\* line 645: saver.save_all() of the checkpoint
CheckpointSaver ==
    /\ b_pc = "checkpoint_saver"
    /\ \E failing \in SaveFailures :
          disk_preds' = save_all(saver, disk_preds, failing)
    /\ b_pc' = "loop"
    /\ idx' = idx + 1
    /\ UNCHANGED << force, resume, progress, todo, saver, interrupted,
                    runner_in, runner_out, log, loaded, disk_progress,
                    disk_labels >>
    /\ UNCHANGED << runs, predicted >>
    /\ UNCHANGED pipeline_vars
    /\ UNCHANGED server_vars

\* lines 616-619 and 652: the loop is over (or interrupted is set) and
\* saver.save_all() runs
FinalSaveAll ==
    /\ b_pc = "loop"
    /\ idx > Len(todo) \/ interrupted
    /\ \E failing \in SaveFailures :
          disk_preds' = save_all(saver, disk_preds, failing)
    /\ b_pc' = "final_progress"
    /\ UNCHANGED << force, resume, progress, todo, idx, saver, interrupted,
                    runner_in, runner_out, log, loaded, disk_progress,
                    disk_labels >>
    /\ UNCHANGED << runs, predicted >>
    /\ UNCHANGED pipeline_vars
    /\ UNCHANGED server_vars

\* line 653: progress.save(), then run() returns
FinalSaveProgress ==
    /\ b_pc = "final_progress"
    /\ \E ok \in BOOLEAN :
          disk_progress' = progress_save(progress, disk_progress, ok)
    /\ b_pc' = "done"
    /\ UNCHANGED << force, resume, progress, todo, idx, saver, interrupted,
                    runner_in, runner_out, log, loaded, disk_preds,
                    disk_labels >>
    /\ UNCHANGED << runs, predicted >>
    /\ UNCHANGED pipeline_vars
    /\ UNCHANGED server_vars

\* _signal_handler (lines 659-666): SIGINT arrives while run() is
\* anywhere after signal.signal; the handler saves and exits the process
Sigint ==
    /\ b_pc \notin { "idle", "done", "exited" }
    /\ interrupted' = TRUE
    /\ \E ok \in BOOLEAN :
          disk_progress' = progress_save(progress, disk_progress, ok)
    /\ \E failing \in SaveFailures :
          disk_preds' = save_all(saver, disk_preds, failing)
    /\ b_pc' = "exited"
    /\ UNCHANGED << force, resume, progress, todo, idx, saver, runner_in,
                    runner_out, log, loaded, disk_labels >>
    /\ UNCHANGED << runs, predicted >>
    /\ UNCHANGED pipeline_vars
    /\ UNCHANGED server_vars

BatchNext ==
    \/ Scan
    \/ StartPredict
    \/ RunnerReturns
    \/ AddPrediction
    \/ MarkProcessed
    \/ MarkFailed
    \/ CheckpointProgress
    \/ CheckpointSaver
    \/ FinalSaveAll
    \/ FinalSaveProgress
    \/ Sigint

BatchSpec == BatchInit /\ [][BatchNext]_vars

\* the saver holds an annotation for the i-th image of the run
InSaver(i) ==
    \E e \in saver :
        e.watch_id = todo[i].watch_id /\ e.image_id = todo[i].image_id

\* number of runner.predict calls in progress
PredictionsInProgress == IF b_pc = "predicting" THEN 1 ELSE 0

\* C17: the batch driver processes images strictly one at a time: at most
\* one prediction is in progress at any moment, and the prediction of the
\* next image starts only after the previous image's annotation has been
\* added to the saver and the image has been marked processed.
C17_StrictlySerial ==
    /\ PredictionsInProgress <= 1
    /\ b_pc = "predicting" =>
          /\ Len(log) = idx - 1
          /\ \A i \in 1..(idx - 1) :
                /\ log[i].image_id = todo[i].image_id
                /\ is_processed(progress, todo[i].image_id)
                /\ InSaver(i)

\* the order alone: every earlier image has been marked processed, and its
\* annotation added to the saver if runner.predict returned one
C17_SerialOrder ==
    /\ PredictionsInProgress <= 1
    /\ b_pc = "predicting" =>
          /\ Len(log) = idx - 1
          /\ \A i \in 1..(idx - 1) :
                /\ log[i].image_id = todo[i].image_id
                /\ is_processed(progress, todo[i].image_id)
                /\ ~log[i].raised => InSaver(i)

\* the pipeline returned success with keypoints in the runner.predict
\* call whose inputs are runner_in
PipelineSucceeded ==
    /\ runner_in[1].file.kind = "image"
    /\ ~runner_in[1].outcome.raised
    /\ runner_in[1].outcome.result[1].success
    /\ runner_in[1].outcome.result[1].keypoints # None

\* the fixed centered keypoints of the geometric fallback
GeometricKeypoints(coords) ==
    /\ coords["center"] = << Frac(1, 2), Frac(1, 2) >>
    /\ coords["top"] = << Frac(1, 2), Frac(1, 10) >>
    /\ coords["bottom"] = << Frac(1, 2), Frac(9, 10) >>
    /\ coords["left"] = << Frac(1, 10), Frac(1, 2) >>
    /\ coords["right"] = << Frac(9, 10), Frac(1, 2) >>

\* C18: PredictionRunner.predict always returns an annotation with all five
\* keypoints and one of three annotator labels, for every input and
\* pipeline outcome: "ml-model-v1.0" iff the pipeline returned success with
\* keypoints and a method that does not name the OBB/pipeline fallback,
\* "ml-model-v1.0-pipeline-fallback" iff it returned success with an
\* OBB-fallback method, and "ml-model-v1.0-geometric-fallback" (fixed
\* centered keypoints, confidence 0.0) iff the image is unreadable, the
\* pipeline returned a failed result, or the pipeline raised.
C18_RunnerAlwaysAnnotates ==
    runner_out # None =>
        LET out == runner_out[1]
            ann == out.annotation[1]
            obb == PipelineSucceeded /\
                   MethodOf(runner_in[1].outcome.result[1])[1] \in ObbMethods
        IN  /\ out.raised = None
            /\ out.annotation # None
            /\ DOMAIN ann.coords_norm = KeypointNames
            /\ out.annotator \in { "ml-model-v1.0",
                                   "ml-model-v1.0-pipeline-fallback",
                                   "ml-model-v1.0-geometric-fallback" }
            /\ (out.annotator = "ml-model-v1.0") <=> (PipelineSucceeded /\ ~obb)
            /\ (out.annotator = "ml-model-v1.0-pipeline-fallback") <=> obb
            /\ (out.annotator = "ml-model-v1.0-geometric-fallback") <=>
                  ~PipelineSucceeded
            /\ (out.annotator = "ml-model-v1.0-geometric-fallback") =>
                  /\ GeometricKeypoints(ann.coords_norm)
                  /\ ann.confidence = R(0)

\* the same for the calls in which cv2.imread returns (an image or None)
C18_WhenImreadReturns ==
    (runner_out # None /\ runner_in[1].file.kind # "raises") =>
        C18_RunnerAlwaysAnnotates

\* number of loop iterations of this run that ended with the annotator a
ProcessedWith(a) ==
    Cardinality({ i \in 1..Len(log) : log[i].annotator = a })

\* C19: after a batch run, stats.pipeline_fallback equals the number of
\* images processed whose annotator was "ml-model-v1.0-pipeline-fallback"
\* and stats.geometric_fallback equals the number whose annotator was
\* "ml-model-v1.0-geometric-fallback" (each on top of what the loaded
\* progress already counted); an image for which a fallback annotation was
\* produced and saved is not recorded in failed_images.
C19_FallbackStats ==
    b_pc = "done" =>
        /\ progress.stats.pipeline_fallback =
              loaded.stats.pipeline_fallback
              + ProcessedWith("ml-model-v1.0-pipeline-fallback")
        /\ progress.stats.geometric_fallback =
              loaded.stats.geometric_fallback
              + ProcessedWith("ml-model-v1.0-geometric-fallback")
        /\ \A i \in 1..Len(log) :
              log[i].annotator \in { "ml-model-v1.0-pipeline-fallback",
                                     "ml-model-v1.0-geometric-fallback" }
                 => log[i].image_id \notin DictKeys(progress.failed_images)

\* what the code does instead: the two counters never move, and every
\* image whose annotator is a fallback is recorded in failed_images
C19_FallbacksCountAsFailures ==
    /\ progress.stats.pipeline_fallback = loaded.stats.pipeline_fallback
    /\ progress.stats.geometric_fallback = loaded.stats.geometric_fallback
    /\ \A i \in 1..Len(log) :
          log[i].annotator # "ml-model-v1.0"
             => log[i].image_id \in DictKeys(progress.failed_images)

\* C20: in force mode the batch driver clears progress and starts fresh: at
\* the start of the processing loop processed_images is empty and every
\* counter of processed images in stats is zero, also when a progress file
\* from an earlier run exists on disk.
C20_ForceStartsFresh ==
    (force /\ b_pc = "loop" /\ idx = 1) =>
        /\ progress.processed_images = <<>>
        /\ progress.failed_images = {}
        /\ progress.stats.processed = 0
        /\ progress.stats.successful = 0
        /\ progress.stats.pipeline_fallback = 0
        /\ progress.stats.geometric_fallback = 0
        /\ progress.stats.skipped_existing = 0
        /\ progress.stats.errors = {}

\* force mode does start fresh when no parsable progress file exists
C20_FreshWithoutProgressFile ==
    (force /\ b_pc = "loop" /\ idx = 1 /\ disk_progress.kind # "data") =>
        C20_ForceStartsFresh

(***************************************************************************)
(* An interrupted run and its resumption: the script is started again      *)
(* with --resume after the SIGINT handler has exited the process           *)
(***************************************************************************)

\* how many times the script is started
MaxRuns == 2

\* main() after an exit: a new BatchProcessor(resume=True, force=False) is
\* constructed (ProgressManager and IncrementalSaver read the directory
\* the stopped run left) and run() starts
Resumption ==
    /\ b_pc = "exited"
    /\ runs < MaxRuns
    /\ runs' = runs + 1
    /\ force' = FALSE
    /\ resume' = TRUE
    /\ progress' = init_progress_data(disk_progress)
    /\ loaded' = init_progress_data(disk_progress)
    /\ b_pc' = "start"
    /\ todo' = <<>>
    /\ idx' = 0
    /\ saver' = {}
    /\ interrupted' = FALSE
    /\ runner_in' = None
    /\ runner_out' = None
    /\ log' = <<>>
    /\ UNCHANGED << disk_progress, disk_preds, disk_labels, predicted >>
    /\ UNCHANGED pipeline_vars
    /\ UNCHANGED server_vars

\* runner.predict on a file cv2.imread reads or raises on; on a readable
\* image the pipeline call raises or returns a successful result
StartPredictReadable ==
    /\ StartPredict
    /\ LET in == runner_in'[1]
       IN  \/ in.file.kind = "raises"
           \/ /\ in.file.kind = "image"
              /\ \/ in.outcome.raised
                 \/ /\ in.outcome.result # None
                    /\ in.outcome.result[1].success

ResumeNext ==
    \/ Scan
    \/ StartPredictReadable
    \/ RunnerReturns
    \/ AddPrediction
    \/ MarkProcessed
    \/ MarkFailed
    \/ CheckpointProgress
    \/ CheckpointSaver
    \/ FinalSaveAll
    \/ FinalSaveProgress
    \/ Sigint
    \/ Resumption

ResumeSpec == BatchInit /\ [][ResumeNext]_vars

\* the image in the runner is neither in the loaded progress file nor in
\* an annotation file of the labels or output directory
ResumeSkipsDone ==
    (resume /\ ~force /\ b_pc = "predicting") =>
        LET id == todo[idx].image_id
        IN  /\ ~InSeq(id, loaded.processed_images)
            /\ id \notin disk_labels
            /\ \A e \in disk_preds : e.image_id # id

\* how often runner.predict has returned for an image, over all runs
TimesPredicted(id) ==
    Cardinality({ i \in 1..Len(predicted) : predicted[i] = id })

\* C21: when resuming (resume, not force) no image listed in the loaded
\* progress file's processed_images or present in an annotation file of
\* the labels or output directory is passed to the runner, and across an
\* interrupted run and its resumption each image is predicted at most once
C21_PredictedAtMostOnce ==
    /\ ResumeSkipsDone
    /\ \A i \in 1..Len(ImageFiles) :
          TimesPredicted(ImageFiles[i].image_id) <= 1

\* the output directory holds an annotation for the image id
OnDisk(id) == \E e \in disk_preds : e.image_id = id

\* the progress file was written by this run: it holds data, and the
\* file the run started from listed no processed image
ProgressWritten ==
    /\ disk_progress.kind = "data"
    /\ loaded.processed_images = <<>>

\* C22: persisted progress never runs ahead of persisted predictions:
\* whenever the progress file has been written, every image id in its
\* processed_images has its annotation in the saved output JSON, at every
\* point where the run can stop and when writing a prediction file fails
C22_ProgressNeverAhead ==
    ProgressWritten =>
        \A i \in 1..Len(disk_progress.data.processed_images) :
            OnDisk(disk_progress.data.processed_images[i])

(***************************************************************************)
(* prediction_server/utils/formatters.py                                   *)
(*   texts are tuples of pieces; "" and None are the empty tuple           *)
(***************************************************************************)
\* round(x, 2): to the nearest hundredth, ties to even; inf and NaN stay
Round2(x) ==
    IF x.d = 0 THEN x
    ELSE LET q   == (x.n * 100) \div x.d
             rem == (x.n * 100) % x.d
             up  == \/ 2 * rem > x.d
                    \/ (2 * rem = x.d /\ q % 2 = 1)
         IN  Frac(IF up THEN q + 1 ELSE q, 100)

\* self.model_version of the pipeline, returned by get_version()
model_version == "yolo-loftr-homography-v1.0"

\* _generate_id: the ids five consecutive calls can return
UuidDraws ==
    { << "3f2a9c1e", "b07d44aa", "0c913e5d", "e41f7a02", "9a6b2c88" >>,
      << "71d0e3b4", "5be8f106", "c2a47d9f", "08f63b1c", "d95e20a7" >> }

\* keypoint_labels of format_keypoints_all, in the dict's order
KeypointLabels ==
    << << "top", "Top" >>, << "bottom", "Bottom" >>, << "left", "Left" >>,
       << "right", "Right" >>, << "center", "Center" >> >>

\* models/response.py: Prediction
Prediction(result_items, score, version, debug) ==
    [result |-> result_items, score |-> score, model_version |-> version,
     debug |-> debug]

\* format_keypoint
format_keypoint(coords_norm, label, image_width, image_height, id) ==
    [id |-> Some(id),
     from_name |-> "keypoints",
     to_name |-> "image",
     type |-> "keypointlabels",
     original_width |-> Some(image_width),
     original_height |-> Some(image_height),
     image_rotation |-> Some(0),
     value |-> [x |-> Round2(RMul(coords_norm[1], R(100))),
                y |-> Round2(RMul(coords_norm[2], R(100))),
                width |-> Frac(3, 2),
                keypointlabels |-> << label >>],
     score |-> None]

\* format_keypoints_all
format_keypoints_all(keypoints, image_width, image_height, ids) ==
    [i \in 1..Len(KeypointLabels) |->
        format_keypoint(keypoints[KeypointLabels[i][1]], KeypointLabels[i][2],
                        image_width, image_height, ids[i])]

\* pipeline_result_to_prediction; the pipeline never sets result.roi
pipeline_result_to_prediction(r, version, ids) ==
    LET image_width ==
            IF r.image_width = None \/ r.image_width = Some(0)
            THEN 2048 ELSE r.image_width[1]
        image_height ==
            IF r.image_height = None \/ r.image_height = Some(0)
            THEN 2048 ELSE r.image_height[1]
        result_items ==
            IF r.keypoints # None
            THEN format_keypoints_all(r.keypoints[1], image_width,
                                      image_height, ids)
            ELSE <<>>
        copied == r.debug_info
        with_error ==
            IF r.error_message # None /\ r.error_message # Some(<<>>)
            THEN [error |-> r.error_message[1]] @@ copied
            ELSE copied
        debug_info ==
            IF ~r.success
            THEN [reason |-> IF "reason" \in DOMAIN with_error
                             THEN with_error.reason
                             ELSE "prediction_failed"] @@ with_error
            ELSE with_error
    IN  Prediction(result_items, Round3(r.confidence), version,
                   IF DOMAIN debug_info = {} THEN None ELSE Some(debug_info))

\* variant: the reason code is left out of the debug info
create_empty_prediction_WithoutReason(version, reason, error_message) ==
    Prediction(<<>>, R(0), version,
        IF error_message # <<>> THEN Some([error |-> error_message])
        ELSE None)

\* create_empty_prediction
create_empty_prediction(version, reason, error_message) ==
    LET base == [reason |-> reason]
        debug_info == IF error_message # <<>>
                      THEN [error |-> error_message] @@ base
                      ELSE base
    IN  Prediction(<<>>, R(0), version, Some(debug_info))

\* create_prediction_response
create_prediction_response(preds) == [predictions |-> preds]

(***************************************************************************)
(* prediction_server/core/cache.py                                         *)
(*   a cache file is [kind |-> "json", content] or [kind |-> "truncated"]  *)
(***************************************************************************)
\* an attribute in the JSON text: None is written as null
JsonOpt(o) ==
    IF o = None THEN [null |-> TRUE] ELSE [null |-> FALSE, value |-> o[1]]

\* an Optional field read back from the JSON text
FromJsonOpt(j) == IF j.null THEN None ELSE Some(j.value)

\* prediction.dict() as json.dump writes it (main.py line 207, cache.py
\* line 66)
PredictionJson(p) ==
    [result |->
        [i \in 1..Len(p.result) |->
            LET it == p.result[i]
            IN  [id |-> JsonOpt(it.id),
                 from_name |-> it.from_name,
                 to_name |-> it.to_name,
                 type |-> it.type,
                 original_width |-> JsonOpt(it.original_width),
                 original_height |-> JsonOpt(it.original_height),
                 image_rotation |-> JsonOpt(it.image_rotation),
                 value |-> it.value,
                 score |-> JsonOpt(it.score)]],
     score |-> p.score,
     model_version |-> p.model_version,
     debug |-> JsonOpt(p.debug)]

\* variant: the ids of the result items are not read back
PredictionFromJson_WithoutIds(j) ==
    Prediction(
        [i \in 1..Len(j.result) |->
            LET it == j.result[i]
            IN  [id |-> None,
                 from_name |-> it.from_name,
                 to_name |-> it.to_name,
                 type |-> it.type,
                 original_width |-> FromJsonOpt(it.original_width),
                 original_height |-> FromJsonOpt(it.original_height),
                 image_rotation |-> FromJsonOpt(it.image_rotation),
                 value |-> it.value,
                 score |-> FromJsonOpt(it.score)]],
        j.score, j.model_version, FromJsonOpt(j.debug))

\* Prediction(**cached_result) (main.py line 194): the Union value is
\* parsed as a KeypointValue when it has keypointlabels
PredictionFromJson(j) ==
    Prediction(
        [i \in 1..Len(j.result) |->
            LET it == j.result[i]
            IN  [id |-> FromJsonOpt(it.id),
                 from_name |-> it.from_name,
                 to_name |-> it.to_name,
                 type |-> it.type,
                 original_width |-> FromJsonOpt(it.original_width),
                 original_height |-> FromJsonOpt(it.original_height),
                 image_rotation |-> FromJsonOpt(it.image_rotation),
                 value |-> IF "keypointlabels" \in DOMAIN it.value
                           THEN [x |-> it.value.x, y |-> it.value.y,
                                 width |-> it.value.width,
                                 keypointlabels |-> it.value.keypointlabels]
                           ELSE it.value,
                 score |-> FromJsonOpt(it.score)]],
        j.score, j.model_version, FromJsonOpt(j.debug))

\* PredictionCache.get
cache_get(files, enabled, key) ==
    IF ~enabled THEN None
    ELSE IF key \notin DictKeys(files) THEN None
    ELSE LET file == DictGet(files, key, [kind |-> "truncated"])
         IN  IF file.kind = "json" THEN Some(file.content) ELSE None

\* what open() and json.dump can do in PredictionCache.set
WriteOutcomes == { "ok", "open_fails", "dump_fails" }

\* PredictionCache.set: an IOError is caught; a write that fails after
\* open() leaves a file that is not JSON
cache_set(files, enabled, key, value, io) ==
    IF ~enabled THEN files
    ELSE CASE io = "ok" ->
                DictSet(files, key, [kind |-> "json", content |-> value])
           [] io = "open_fails" -> files
           [] OTHER -> DictSet(files, key, [kind |-> "truncated"])

\* PredictionCache.make_key
make_key(image_hash, pipeline_version, config_hash) ==
    << image_hash, "_", pipeline_version, "_", config_hash >>

(***************************************************************************)
(* prediction_server/main.py: the server after startup_event, handling     *)
(* one request at a time (the handlers never await while they work)        *)
(***************************************************************************)
\* how many tasks a request holds at most
MaxTasks == 2

\* the images a task can name, with what the file system answers:
\*   valid : path_resolver.resolve finds it and validate_path accepts it
\*   hash  : Optional sha256 of the file (None: hash_file raises)
MediaFiles ==
    { [image |-> "/data/media/missing.jpg", valid |-> FALSE, hash |-> None],
      [image |-> "/data/media/a.jpg", valid |-> TRUE, hash |-> Some("ha5h")],
      [image |-> "/data/media/b.jpg", valid |-> TRUE, hash |-> Some("hb5h")],
      [image |-> "/data/media/locked.jpg", valid |-> TRUE, hash |-> None] }

FileOf(image) == CHOOSE f \in MediaFiles : f.image = image

\* models/request.py: LabelStudioTask(data=LabelStudioTaskData(image))
LabelStudioTask(image) == [data |-> [image |-> image], meta |-> None]

Tasks == { LabelStudioTask(f.image) : f \in MediaFiles }

\* a task sent with an extra field "tasks" (Config.extra = "allow")
TaskWithTasks ==
    [data |-> [image |-> "/data/media/a.jpg"], meta |-> None, tasks |-> <<>>]

\* LabelStudioBatchRequest.tasks
TaskLists(S) == UNION { [1..k -> S] : k \in 0..MaxTasks }

\* hash_config(config.pipeline.dict())
config_hash == "c0nf"

\* lines 177-186 of predict: the cache key, None when hashing raises
CacheKeyOf(task) ==
    LET file == FileOf(task.data.image)
    IN  IF file.hash = None THEN None
        ELSE Some(make_key(file.hash[1], model_version, config_hash))

\* what pipeline.predict does in the server: raise, fail in the
\* detection, or succeed with the projection of an invertible homography
ServerOutcomes ==
    { o \in PipelineOutcomes(NabTemplate) :
        \/ o.raised
        \/ /\ ~o.result[1].success
           /\ o.result[1].image_width # None
        \/ /\ o.result[1].success
           /\ o.result[1].debug_info.method = "YOLO-LoFTR-Homography"
           /\ o.result[1].keypoints[1] # SingularDefaultKeypoints }

\* str(e) of the exception pipeline.predict raised
ExceptionTexts == { <<>>, << "cv2.error" >> }

\* line 206, variant: every result is cached
ShouldCache_AnyResult(cache_key, enabled, r) ==
    cache_key # None /\ enabled

\* line 206: if cache_key and cache.enabled and result.success
ShouldCache(cache_key, enabled, r) ==
    cache_key # None /\ enabled /\ r.success

\* the file an earlier session of the server left in the cache directory:
\* the prediction of b.jpg, with the record of the cache.set that wrote it
EarlierPrediction ==
    LET o == CHOOSE x \in ServerOutcomes : ~x.raised /\ x.result[1].success
        ids == CHOOSE d \in UuidDraws : d[1] = "3f2a9c1e"
    IN  [success |-> o.result[1].success,
         prediction |->
            pipeline_result_to_prediction(o.result[1], model_version, ids)]

EarlierKey == make_key("hb5h", model_version, config_hash)

EarlierCache ==
    { << EarlierKey,
         [kind |-> "json",
          content |-> PredictionJson(EarlierPrediction.prediction)] >> }

\* server state after startup_event (lines 61-94): globals set, no request
ServerInit ==
    /\ BatchIdle
    /\ template_data = NabTemplate
    /\ pc = "ready"
    /\ img = None
    /\ det = None
    /\ mkpts = None
    /\ hom = None
    /\ result = None
    /\ nresults = 0
    /\ yolo_out = None
    /\ inv_error = FALSE
    /\ exc = None
    /\ raised = None
    /\ calls = <<>>
    /\ est_in = None
    /\ cache_enabled \in BOOLEAN
    /\ cache_files \in { {}, EarlierCache }
    /\ s_pc = "waiting"
    /\ request = None
    /\ task_idx = 0
    /\ predictions = <<>>
    /\ response = None
    /\ paths = <<>>
    /\ stored = IF cache_files = {} THEN {}
                ELSE { << EarlierKey, EarlierPrediction >> }

\* the task the loop of predict is at
CurrentTask == request[1].tasks[task_idx]

InLoop ==
    /\ s_pc = "task"
    /\ task_idx <= Len(request[1].tasks)

\* the cache directory holds a readable file for the Optional key
HasEntry(files, key) ==
    /\ key # None
    /\ \E e \in files : e[1] = key[1] /\ e[2].kind = "json"

\* one entry of the history paths: the task's image and key, whether the
\* key had an entry when the task was reached, the path taken, whether
\* pipeline.predict was called and what it returned
PathEntry(task, path, ran, r) ==
    [image |-> task.data.image, path |-> path, key |-> CacheKeyOf(task),
     had_entry |-> HasEntry(cache_files, CacheKeyOf(task)),
     ran |-> ran, result |-> r]

\* POST /predict, lines 138-157: the request is accepted
Predict ==
    /\ s_pc = "waiting"
    /\ \E tasks \in TaskLists(Tasks) :
          request' = Some([endpoint |-> "/predict", tasks |-> tasks])
    /\ predictions' = <<>>
    /\ task_idx' = 1
    /\ response' = None
    /\ paths' = <<>>
    /\ s_pc' = "task"
    /\ UNCHANGED << cache_enabled, cache_files, stored >>
    /\ UNCHANGED pipeline_vars
    /\ UNCHANGED batch_vars

\* lines 160-175: the image path does not resolve to a file
TaskInvalidPath ==
    /\ InLoop
    /\ ~FileOf(CurrentTask.data.image).valid
    /\ predictions' = Append(predictions,
          create_empty_prediction(model_version, "invalid_image_path",
              << "Image not found: ", CurrentTask.data.image >>))
    /\ paths' = Append(paths,
          PathEntry(CurrentTask, "invalid_image_path", FALSE, None))
    /\ task_idx' = task_idx + 1
    /\ UNCHANGED << cache_enabled, cache_files, s_pc, request, response,
                    stored >>
    /\ UNCHANGED pipeline_vars
    /\ UNCHANGED batch_vars

\* the cached prediction of the current task (lines 189-190)
CachedResult ==
    IF CacheKeyOf(CurrentTask) # None /\ cache_enabled
    THEN cache_get(cache_files, cache_enabled, CacheKeyOf(CurrentTask)[1])
    ELSE None

\* lines 189-195: cache hit
TaskCacheHit ==
    /\ InLoop
    /\ FileOf(CurrentTask.data.image).valid
    /\ CachedResult # None
    /\ predictions' = Append(predictions, PredictionFromJson(CachedResult[1]))
    /\ paths' = Append(paths, PathEntry(CurrentTask, "cache_hit", FALSE, None))
    /\ task_idx' = task_idx + 1
    /\ UNCHANGED << cache_enabled, cache_files, s_pc, request, response,
                    stored >>
    /\ UNCHANGED pipeline_vars
    /\ UNCHANGED batch_vars

\* lines 197-219: the pipeline runs; its result is converted and, when
\* successful, cached; an exception gives an empty prediction
TaskRunPipeline ==
    /\ InLoop
    /\ FileOf(CurrentTask.data.image).valid
    /\ CachedResult = None
    /\ \E o \in ServerOutcomes :
          IF o.raised
          THEN /\ \E e \in ExceptionTexts :
                     predictions' = Append(predictions,
                         create_empty_prediction(model_version,
                             "pipeline_error", e))
               /\ paths' = Append(paths,
                     PathEntry(CurrentTask, "pipeline_exception", TRUE, None))
               /\ UNCHANGED << cache_files, stored >>
          ELSE \E ids \in UuidDraws :
               LET r == o.result[1]
                   prediction ==
                       pipeline_result_to_prediction(r, model_version, ids)
                   cache_key == CacheKeyOf(CurrentTask)
               IN  /\ IF ShouldCache(cache_key, cache_enabled, r)
                      THEN \E io \in WriteOutcomes :
                             /\ cache_files' =
                                  cache_set(cache_files, cache_enabled,
                                      cache_key[1], PredictionJson(prediction),
                                      io)
                             /\ stored' =
                                  IF io = "open_fails" THEN stored
                                  ELSE DictSet(stored, cache_key[1],
                                          [success |-> r.success,
                                           prediction |-> prediction])
                      ELSE UNCHANGED << cache_files, stored >>
                   /\ predictions' = Append(predictions, prediction)
                   /\ paths' = Append(paths,
                         PathEntry(CurrentTask,
                             IF r.success THEN "pipeline_success"
                             ELSE "pipeline_failure", TRUE, Some(r)))
    /\ task_idx' = task_idx + 1
    /\ UNCHANGED << cache_enabled, s_pc, request, response >>
    /\ UNCHANGED pipeline_vars
    /\ UNCHANGED batch_vars

\* lines 221-252: the loop is over, the dict is returned
PredictReturns ==
    /\ s_pc = "task"
    /\ task_idx > Len(request[1].tasks)
    /\ response' = Some([status |-> 200,
          body |-> [results |->
              [i \in 1..Len(predictions) |-> PredictionJson(predictions[i])]]])
    /\ s_pc' = "responded"
    /\ UNCHANGED << cache_enabled, cache_files, request, task_idx,
                    predictions, paths, stored >>
    /\ UNCHANGED pipeline_vars
    /\ UNCHANGED batch_vars

\* "await predict(task)" of predict_batch (line 279): predict() is handed
\* a LabelStudioTask instead of a LabelStudioBatchRequest; it reads
\* request.tasks (line 160) and task.data of each element (line 162), and
\* returns the dict {"results": [...]} (line 224)
PredictCalledWith(obj) ==
    IF "tasks" \notin DOMAIN obj
    THEN [raised |-> Some("AttributeError: no attribute 'tasks'"),
          value |-> None]
    ELSE IF obj.tasks # <<>>
    THEN [raised |-> Some("AttributeError: no attribute 'data'"),
          value |-> None]
    ELSE [raised |-> None, value |-> Some([results |-> <<>>])]

\* the loop of predict_batch (lines 277-280) from task i on: the
\* predictions gathered, or the exception that ends the request
RECURSIVE predict_batch_loop(_, _, _)
predict_batch_loop(tasks, i, acc) ==
    IF i > Len(tasks) THEN [raised |-> None, predictions |-> acc]
    ELSE LET called == PredictCalledWith(tasks[i])
         IN  IF called.raised # None
             THEN [raised |-> called.raised, predictions |-> acc]
             ELSE IF "predictions" \notin DOMAIN called.value[1]
             THEN [raised |->
                      Some("AttributeError: 'dict' has no attribute 'predictions'"),
                   predictions |-> acc]
             ELSE predict_batch_loop(tasks, i + 1,
                      acc \o called.value[1].predictions)

\* POST /predict_batch, lines 255-282; an exception leaving the handler
\* is answered with status 500
PredictBatch ==
    /\ s_pc = "waiting"
    /\ \E tasks \in TaskLists(Tasks \cup { TaskWithTasks }) :
          LET done == predict_batch_loop(tasks, 1, <<>>)
          IN  /\ request' = Some([endpoint |-> "/predict_batch",
                                  tasks |-> tasks])
              /\ predictions' = done.predictions
              /\ response' =
                   IF done.raised # None
                   THEN Some([status |-> 500, body |-> done.raised[1]])
                   ELSE Some([status |-> 200,
                              body |-> create_prediction_response(
                                           done.predictions)])
    /\ task_idx' = 0
    /\ paths' = <<>>
    /\ s_pc' = "responded"
    /\ UNCHANGED << cache_enabled, cache_files, stored >>
    /\ UNCHANGED pipeline_vars
    /\ UNCHANGED batch_vars

\* the response has been sent: the handler's locals are gone and the
\* server waits for the next request
ResponseSent ==
    /\ s_pc = "responded"
    /\ s_pc' = "waiting"
    /\ request' = None
    /\ task_idx' = 0
    /\ predictions' = <<>>
    /\ response' = None
    /\ paths' = <<>>
    /\ UNCHANGED << cache_enabled, cache_files, stored >>
    /\ UNCHANGED pipeline_vars
    /\ UNCHANGED batch_vars

ServerNext ==
    \/ Predict
    \/ TaskInvalidPath
    \/ TaskCacheHit
    \/ TaskRunPipeline
    \/ PredictReturns
    \/ PredictBatch
    \/ ResponseSent

ServerSpec == ServerInit /\ [][ServerNext]_vars

\* the task was answered from a failed pipeline call
FailedPath(p) == p.path \in { "pipeline_failure", "pipeline_exception" }

\* every file in the cache directory was written by a cache.set call made
\* for a successful pipeline result, and holds that call's prediction
CacheFromSuccess ==
    \A e \in cache_files :
        \E h \in stored :
            /\ h[1] = e[1]
            /\ h[2].success
            /\ e[2].kind = "json" =>
                  e[2].content = PredictionJson(h[2].prediction)

\* C23: failed predictions are never cached: every entry of the prediction
\* cache was written from a pipeline result with success = true, and after
\* a task whose prediction failed the cache has no entry for its key, so
\* the next request for that image runs the pipeline again
C23_FailuresNeverCached ==
    /\ CacheFromSuccess
    /\ \A h \in stored : h[2].success
    /\ (paths # <<>> /\ FailedPath(paths[Len(paths)])
          /\ paths[Len(paths)].key # None) =>
            cache_get(cache_files, cache_enabled,
                      paths[Len(paths)].key[1]) = None

\* an image whose prediction failed is run through the pipeline again
\* while the cache holds the prediction of another image
C23_Witness ==
    /\ cache_enabled
    /\ Len(paths) = 2
    /\ paths[1].image = paths[2].image
    /\ paths[1].key # None
    /\ paths[1].path = "pipeline_failure"
    /\ paths[2].ran
    /\ \E e \in cache_files : e[2].kind = "json"

\* the prediction returned by the request whose cache.set wrote the entry
StoredPrediction(key) ==
    DictGet(stored, key, EarlierPrediction).prediction

\* C24: with caching enabled, a /predict task whose cache key already has
\* an entry is answered with the stored prediction without calling
\* pipeline.predict, and that prediction equals the one returned by the
\* request that stored the entry; with caching disabled every get returns
\* None, set writes nothing and the pipeline runs for every valid task
C24_CacheHitOrAlwaysRun ==
    /\ Len(predictions) = Len(paths)
    /\ cache_enabled =>
          \A i \in 1..Len(paths) :
              paths[i].had_entry =>
                  /\ paths[i].path = "cache_hit"
                  /\ ~paths[i].ran
                  /\ predictions[i] = StoredPrediction(paths[i].key[1])
    /\ ~cache_enabled =>
          /\ \A i \in 1..Len(paths) :
                FileOf(paths[i].image).valid => paths[i].ran
          /\ cache_files \in { {}, EarlierCache }
          /\ \A f \in MediaFiles :
                f.hash # None =>
                   LET key == make_key(f.hash[1], model_version, config_hash)
                   IN  /\ cache_get(cache_files, cache_enabled, key) = None
                       /\ \A io \in WriteOutcomes :
                             cache_set(cache_files, cache_enabled, key,
                                 PredictionJson(EarlierPrediction.prediction),
                                 io) = cache_files

\* a request stores the prediction of a.jpg and a later request is
\* answered from the cache
C24_Witness ==
    /\ cache_enabled
    /\ \E i \in 1..Len(paths) :
          /\ paths[i].image = "/data/media/a.jpg"
          /\ paths[i].path = "cache_hit"
          /\ predictions[i].result # <<>>

\* caching is disabled, the cache directory holds the file of b.jpg, and
\* the pipeline runs for b.jpg
C24_WitnessDisabled ==
    /\ ~cache_enabled
    /\ cache_files = EarlierCache
    /\ \E i \in 1..Len(paths) :
          paths[i].image = "/data/media/b.jpg" /\ paths[i].ran

\* the prediction is empty, scores 0.0 and carries a reason
EmptyWithReason(p) ==
    /\ p.result = <<>>
    /\ p.score = R(0)
    /\ p.debug # None
    /\ "reason" \in DOMAIN p.debug[1]

\* the prediction p is the one predict() builds for a task answered the
\* way the history entry e says
BelongsTo(p, e) ==
    CASE e.path = "invalid_image_path" ->
            p = create_empty_prediction(model_version, "invalid_image_path",
                    << "Image not found: ", e.image >>)
      [] e.path = "cache_hit" ->
            p = StoredPrediction(e.key[1])
      [] e.path = "pipeline_exception" ->
            \E t \in ExceptionTexts :
                p = create_empty_prediction(model_version, "pipeline_error", t)
      [] OTHER ->
            \E ids \in UuidDraws :
                p = pipeline_result_to_prediction(e.result[1], model_version,
                        ids)

\* the request being handled is a /predict request
InPredict == request # None /\ request[1].endpoint = "/predict"

C25_WitnessPaths ==
    /\ InPredict
    /\ s_pc = "responded"
    /\ Len(request[1].tasks) = 2
    /\ paths[1].path \in { "invalid_image_path", "pipeline_failure" }
    /\ paths[2].path = "cache_hit"

\* the request being answered is a /predict_batch request
BatchAnswered ==
    /\ s_pc = "responded"
    /\ request[1].endpoint = "/predict_batch"

\* C26: /predict_batch returns a PredictionResponse that contains the
\* predictions for all tasks of the request, obtained by running the
\* prediction for each task in order
C26_BatchReturnsAllPredictions ==
    BatchAnswered =>
        /\ response[1].status = 200
        /\ Len(response[1].body.predictions) = Len(request[1].tasks)

\* the only request /predict_batch answers with a PredictionResponse is
\* the one without tasks
C26_OnlyEmptyRequestAnswered ==
    BatchAnswered =>
        (response[1].status = 200 <=> request[1].tasks = <<>>)

====
